---- MODULE Spec2Model ----
(***************************************************************************)
(* Polkadot inflation tracker: the flow-analysis engine (FlowAnalyzer),    *)
(* the reward and transfer collectors and the tracker's initialisation,    *)
(* each as a state machine translated from the JavaScript source.          *)
(*                                                                         *)
(* Numbers: amounts and timestamps are integers; a quotient the code       *)
(* computes in floating point (a percentage, an average) is kept as the    *)
(* exact fraction [num, den] and compared by cross-multiplication.         *)
(***************************************************************************)
EXTENDS Integers, Sequences, FiniteSets, TLC

VARIABLES
    \* ---- FlowAnalyzer.analyzeFlows: its arguments, its environment, its result
    rewards,        \* the `rewards` argument: a list of reward events
    transfers,      \* the `transfers` argument: a list of transfer events
    exchangeFlows,  \* the `exchangeFlows` argument: a list of classified flows
    now,            \* the wall clock, in unix seconds (Date.now() / 1000)
    tzOffset,       \* the process time zone, seconds east of UTC (Date#getHours)
    analysis,       \* the AnalysisResult of the latest analyzeFlows call
    previous,       \* the AnalysisResult of the call before it
    runs            \* the number of analyzeFlows calls made so far

analyzerVars == <<rewards, transfers, exchangeFlows, now, tzOffset, analysis, previous, runs>>

VARIABLES
    \* ---- TransferCollector: one trackTransfers or getTransferHistory call
    tPhase,         \* "idle", "tracking", "history" or "returned"
    tCohort,        \* the `addresses` argument of trackTransfers
    tStartTime,     \* startTime, computed when the call starts
    tEndTime,       \* endTime, computed when the call starts
    tBatchStart,    \* i, the index of the first address of the current batch
    tasks,          \* the fetch tasks running concurrently (Promise.all)
    allTransfers,   \* the list the call builds and returns
    tFailures       \* how many upstream requests have failed so far

transferVars ==
    <<tPhase, tCohort, tStartTime, tEndTime, tBatchStart, tasks, allTransfers, tFailures>>

VARIABLES
    \* ---- RewardCollector: one fetchRecentRewards call
    rPhase,          \* "idle", "request", "inflight" or "returned"
    rCohort,         \* the `addresses` argument
    rStartTime,      \* startTime, computed when the call starts
    rEndTime,        \* endTime, computed when the call starts
    rIndex,          \* the position in rCohort of the receiver being fetched
    recentRewards,   \* the `rewards` list the call builds and returns
    rFailures,       \* how many upstream requests have failed so far
    upstreamRewards  \* per address, the reward records the upstream source holds

rewardVars ==
    <<rPhase, rCohort, rStartTime, rEndTime, rIndex, recentRewards, rFailures,
      upstreamRewards>>

VARIABLES
    \* ---- top-receiver discovery: InflationTracker.initialize and the
    \* fetch-receivers command of index.js
    dPhase,          \* where the run stands (see DiscoveryPhases)
    dEntry,          \* "initialize" or "fetch-receivers"
    dLimit,          \* the `limit` argument of fetchTopRewardReceivers
    dPage,           \* page, the next page index to request
    receivers,       \* the list fetchTopRewardReceivers builds and returns
    dFailedPage,     \* the page whose request failed, or -1
    storedReceivers  \* the receivers in data/receivers/top-receivers.json

discoveryVars ==
    <<dPhase, dEntry, dLimit, dPage, receivers, dFailedPage, storedReceivers>>

VARIABLES
    \* ---- the rate limiter of one collector instance (Bottleneck) and the
    \* makeRequest calls made on it
    lCaller,         \* which method is making the concurrent calls, or "none"
    lQueued,         \* how many jobs limiter.schedule holds back
    lRunning,        \* how many jobs run: requests in flight at the upstream
    lSettled,        \* how many jobs have returned or thrown
    lSpaced          \* TRUE when minTime has passed since the last job started

limiterVars == <<lCaller, lQueued, lRunning, lSettled, lSpaced>>

VARIABLES
    \* ---- ExchangeDetector: detectExchangeTransfers in the tracking cycle,
    \* and categorizeAddresses
    pStage,          \* "idle", "collected", "detected" or "categorized"
    givenTransfers,  \* the transfer list as it was handed to the detector
    catAddresses,    \* the `addresses` argument of categorizeAddresses
    catTransfers,    \* the `transfers` argument of categorizeAddresses
    categories       \* the object categorizeAddresses returns

detectorVars == <<pStage, givenTransfers, catAddresses, catTransfers, categories>>

VARIABLES
    \* ---- one run of the tracker: runTrackingCycle followed by generateReport
    \* (src/src/tracker.js), or trackNominators (src/track-nominators.js)
    cEntry,          \* "none", "runTrackingCycle" or "trackNominators"
    cStage,          \* the step about to run, or where the run has ended
    cHours,          \* the `hours` the collectors are called with
    cLog,            \* the steps that have returned, in order
    cThrown,         \* the step that threw, or "none"
    latestFile,      \* what data/analysis/latest.json holds, or null
    loadedAnalysis,  \* what loadLatestAnalysis returned
    report           \* what Reporter.generateReport returned, or that it threw

cycleVars ==
    <<cEntry, cStage, cHours, cLog, cThrown, latestFile, loadedAnalysis, report>>

vars ==
    <<analyzerVars, transferVars, rewardVars, discoveryVars, limiterVars, detectorVars,
      cycleVars>>

----------------------------------------------------------------------------
\* Bounds of the model.

\* The most events (rewards + exchangeFlows + transfers) drawn for one analysis.
MaxEvents == 3

\* How many seconds the wall clock may advance between two analysis runs.
MaxTicks == 1

\* How many full pages the upstream source returns for one query before a
\* short or empty one.
MaxFullPages == 1

\* How many upstream requests may fail in one collection call.
MaxFailures == 1

\* The most quick deposits of one address drawn for one analysis.
MaxQuickFlows == 11

\* The most deposits above the large-flow threshold drawn for one analysis.
MaxLargeFlows == 3

\* The most selling addresses, and the most holding addresses, drawn for one
\* analysis of the rankings.
MaxRanked == 11

----------------------------------------------------------------------------
\* Program constants.

\* process.env.RAPID_SELL_TIME_HOURS || '1'
RAPID_SELL_TIME_HOURS == 1

\* this.rapidSellThreshold = parseInt(...) * 3600
rapidSellThreshold == RAPID_SELL_TIME_HOURS * 3600

\* this.largeFlowThreshold = parseFloat(process.env.LARGE_FLOW_THRESHOLD_DOT || '10000')
largeFlowThreshold == 10000

\* .slice(0, 10) of the seller and holder rankings
TopN == 10

\* the 24 hour-of-day buckets of generateTrends
HoursPerDay == 24

\* period.start = now - 86400
PeriodSeconds == 86400

\* Bottleneck({minTime: 200, maxConcurrent: 5})
maxConcurrent == 5

\* rowsPerPage of fetchTransfersForAddress, fetchIncomingTransfers and
\* fetchTopRewardReceivers
rowsPerPage == 100

\* batchSize of trackTransfers
transferBatchSize == 10

\* limit = 1000, the default of fetchTopRewardReceivers
defaultLimit == 1000

\* row: 20 of the reward_slash request of fetchRecentRewards
rewardRows == 20

\* batchSize of fetchAccountDetails
accountBatchSize == 20

\* hours = 24, the default window of trackTransfers and fetchRecentRewards
defaultHours == 24

----------------------------------------------------------------------------
\* Values.

\* An exact quotient n / d (d > 0) standing for the floating-point result.
Frac(n, d) == [num |-> n, den |-> d]

FracEq(p, q) == p.num * q.den = q.num * p.den

FracIsZero(p) == p.num = 0

FracNonNeg(p) == p.num >= 0 /\ p.den > 0

\* new Date(timestamp * 1000).getHours(): the hour of day in the process's
\* local time zone.
getHours(timestamp, tz) == ((timestamp + tz) \div 3600) % 24

\* A JavaScript Map: its entries in insertion order; set() on a present key
\* keeps the entry's place.
MapHas(m, k) == \E i \in DOMAIN m : m[i].key = k

MapIdx(m, k) == CHOOSE i \in DOMAIN m : m[i].key = k

MapGet(m, k) == m[MapIdx(m, k)].value

MapSet(m, k, v) ==
    IF MapHas(m, k) THEN [m EXCEPT ![MapIdx(m, k)].value = v]
    ELSE Append(m, [key |-> k, value |-> v])

MapKeys(m) == {m[i].key : i \in DOMAIN m}

\* A plain object keyed by hour: obj[k] = (obj[k] || 0) + v.
EmptyObj == [h \in {} |-> 0]

ObjAdd(obj, k, v) ==
    IF k \in DOMAIN obj THEN [obj EXCEPT ![k] = @ + v]
    ELSE (k :> v) @@ obj

\* obj[k] || 0
ObjGet(obj, k) == IF k \in DOMAIN obj THEN obj[k] ELSE 0

\* obj[k] || [] followed by push(x)
ObjPush(obj, k, x) ==
    IF k \in DOMAIN obj THEN [obj EXCEPT ![k] = Append(@, x)]
    ELSE (k :> <<x>>) @@ obj

RECURSIVE SumAmounts(_)
SumAmounts(s) == IF s = <<>> THEN 0 ELSE Head(s).amount + SumAmounts(Tail(s))

RECURSIVE SumSeq(_)
SumSeq(s) == IF s = <<>> THEN 0 ELSE Head(s) + SumSeq(Tail(s))

\* Array.prototype.slice(0, n)
Slice(s, n) == SubSeq(s, 1, IF Len(s) < n THEN Len(s) ELSE n)

\* Array.prototype.sort((a, b) => b.f - a.f) for the field named f:
\* descending and stable (equal keys keep their order), computed key by key
\* from the greatest key down.
RECURSIVE SortDescKeys(_, _, _)
SortDescKeys(s, f, keys) ==
    IF keys = {} THEN <<>>
    ELSE LET top == CHOOSE k \in keys : \A j \in keys : k >= j
         IN SelectSeq(s, LAMBDA x : x[f] = top) \o SortDescKeys(s, f, keys \ {top})

SortDesc(s, f) == SortDescKeys(s, f, {s[i][f] : i \in DOMAIN s})

----------------------------------------------------------------------------
\* FlowAnalyzer (src/src/reporter.js, from line 306).

\* The `analysis` object analyzeFlows creates before its passes run.
NewAnalysis(clock) ==
    [timestamp |-> clock,
     period |-> [start |-> clock - PeriodSeconds, end |-> clock],
     summary |-> [totalRewards |-> 0,
                  totalTransfers |-> 0,
                  exchangeFlow |-> 0,
                  sellPressurePercent |-> Frac(0, 1),
                  quickSellers |-> 0,
                  holders |-> 0,
                  averageTimeToExchange |-> Frac(0, 1)],
     details |-> [rewardsByAddress |-> <<>>,
                  transfersByAddress |-> <<>>,
                  exchangeFlowsByAddress |-> <<>>,
                  sellPressureByHour |-> EmptyObj,
                  topSellers |-> <<>>,
                  topHolders |-> <<>>,
                  suspiciousPatterns |-> <<>>],
     trends |-> [hourlyRewards |-> EmptyObj,
                 hourlyExchangeFlows |-> EmptyObj,
                 cumulativeSellPressure |-> <<>>]]

\* Mutant: a reward of the hour 0 is left out of the hourly buckets.
analyzeReward_SkipsHourZero(reward, a, tz) ==
    LET m == a.details.rewardsByAddress
        old == IF MapHas(m, reward.address) THEN MapGet(m, reward.address)
               ELSE [total |-> 0, count |-> 0, rewards |-> <<>>]
        addrRewards == [total |-> old.total + reward.amount,
                        count |-> old.count + 1,
                        rewards |-> Append(old.rewards, reward)]
        hour == getHours(reward.timestamp, tz)
    IN [a EXCEPT !.summary.totalRewards = @ + reward.amount,
                 !.details.rewardsByAddress = MapSet(@, reward.address, addrRewards),
                 !.trends.hourlyRewards = IF hour = 0 THEN @
                                          ELSE ObjAdd(@, hour, reward.amount)]

\* One iteration of the loop of analyzeRewards.
analyzeReward(reward, a, tz) ==
    LET m == a.details.rewardsByAddress
        old == IF MapHas(m, reward.address) THEN MapGet(m, reward.address)
               ELSE [total |-> 0, count |-> 0, rewards |-> <<>>]
        addrRewards == [total |-> old.total + reward.amount,
                        count |-> old.count + 1,
                        rewards |-> Append(old.rewards, reward)]
        hour == getHours(reward.timestamp, tz)
    IN [a EXCEPT !.summary.totalRewards = @ + reward.amount,
                 !.details.rewardsByAddress = MapSet(@, reward.address, addrRewards),
                 !.trends.hourlyRewards = ObjAdd(@, hour, reward.amount)]

RECURSIVE analyzeRewards(_, _, _)
analyzeRewards(rs, a, tz) ==
    IF rs = <<>> THEN a
    ELSE analyzeRewards(Tail(rs), analyzeReward(Head(rs), a, tz), tz)

\* One iteration of the loop of analyzeTransfers.
analyzeTransfer(transfer, a) ==
    LET m == a.details.transfersByAddress
        old == IF MapHas(m, transfer.from) THEN MapGet(m, transfer.from)
               ELSE [total |-> 0, count |-> 0, transfers |-> <<>>]
        addrTransfers == [total |-> old.total + transfer.amount,
                          count |-> old.count + 1,
                          transfers |-> Append(old.transfers, transfer)]
    IN [a EXCEPT !.summary.totalTransfers = @ + transfer.amount,
                 !.details.transfersByAddress = MapSet(@, transfer.from, addrTransfers)]

RECURSIVE analyzeTransfers(_, _)
analyzeTransfers(ts, a) ==
    IF ts = <<>> THEN a
    ELSE analyzeTransfers(Tail(ts), analyzeTransfer(Head(ts), a))

\* The quick-sell check of one deposit flow (reporter.js 422-434): the reward
\* it is timed against is the last element of the address's reward list.
HasRewardInfo(flow, a) ==
    /\ MapHas(a.details.rewardsByAddress, flow.from)
    /\ Len(MapGet(a.details.rewardsByAddress, flow.from).rewards) > 0

\* Mutant: the flow is timed against the last reward of the address that
\* was rewarded first.
lastReward_OfFirstRewarded(flow, a) ==
    LET rs == a.details.rewardsByAddress[1].value.rewards
    IN rs[Len(rs)]

lastReward(flow, a) ==
    LET rs == MapGet(a.details.rewardsByAddress, flow.from).rewards
    IN rs[Len(rs)]

timeDiff(flow, a) == flow.timestamp - lastReward(flow, a).timestamp

\* Mutant: the flow is aggregated whatever its type.
analyzeExchangeFlow_AnyType(flow, st, tz) ==
    LET a == st.a
        m == a.details.exchangeFlowsByAddress
        old == IF MapHas(m, flow.from) THEN MapGet(m, flow.from)
               ELSE [total |-> 0, count |-> 0, flows |-> <<>>, quickSell |-> FALSE]
        timed == HasRewardInfo(flow, a)
        quick == timed /\ timeDiff(flow, a) < rapidSellThreshold
        addrFlows == [total |-> old.total + flow.amount,
                      count |-> old.count + 1,
                      flows |-> Append(old.flows, flow),
                      quickSell |-> old.quickSell \/ quick]
        hour == getHours(flow.timestamp, tz)
    IN [a |-> [a EXCEPT !.summary.exchangeFlow = @ + flow.amount,
                        !.summary.quickSellers = IF quick THEN @ + 1 ELSE @,
                        !.details.exchangeFlowsByAddress = MapSet(@, flow.from, addrFlows),
                        !.trends.hourlyExchangeFlows = ObjAdd(@, hour, flow.amount)],
        timeToExchange |-> IF timed THEN Append(st.timeToExchange, timeDiff(flow, a))
                           ELSE st.timeToExchange]

\* One iteration of the loop of analyzeExchangeFlows, on the pair
\* [a: analysis, timeToExchange: the local list].
analyzeExchangeFlow(flow, st, tz) ==
    IF flow.type # "deposit" THEN st
    ELSE
    LET a == st.a
        m == a.details.exchangeFlowsByAddress
        old == IF MapHas(m, flow.from) THEN MapGet(m, flow.from)
               ELSE [total |-> 0, count |-> 0, flows |-> <<>>, quickSell |-> FALSE]
        timed == HasRewardInfo(flow, a)
        quick == timed /\ timeDiff(flow, a) < rapidSellThreshold
        addrFlows == [total |-> old.total + flow.amount,
                      count |-> old.count + 1,
                      flows |-> Append(old.flows, flow),
                      quickSell |-> old.quickSell \/ quick]
        hour == getHours(flow.timestamp, tz)
    IN [a |-> [a EXCEPT !.summary.exchangeFlow = @ + flow.amount,
                        !.summary.quickSellers = IF quick THEN @ + 1 ELSE @,
                        !.details.exchangeFlowsByAddress = MapSet(@, flow.from, addrFlows),
                        !.trends.hourlyExchangeFlows = ObjAdd(@, hour, flow.amount)],
        timeToExchange |-> IF timed THEN Append(st.timeToExchange, timeDiff(flow, a))
                           ELSE st.timeToExchange]

RECURSIVE analyzeExchangeFlowsLoop(_, _, _)
analyzeExchangeFlowsLoop(fs, st, tz) ==
    IF fs = <<>> THEN st
    ELSE analyzeExchangeFlowsLoop(Tail(fs), analyzeExchangeFlow(Head(fs), st, tz), tz)

analyzeExchangeFlows(fs, a, tz) ==
    LET st == analyzeExchangeFlowsLoop(fs, [a |-> a, timeToExchange |-> <<>>], tz)
        tte == st.timeToExchange
    IN IF Len(tte) > 0
       THEN [st.a EXCEPT !.summary.averageTimeToExchange =
                             Frac(SumSeq(tte), Len(tte) * 3600)]
       ELSE st.a


\* Mutant: the quotient taken of all outgoing transfers, not of the deposits.
sellPressure_OfTransfers(summary) ==
    IF summary.totalRewards > 0
    THEN Frac(summary.totalTransfers * 100, summary.totalRewards)
    ELSE summary.sellPressurePercent

\* Mutant: the quotient taken without the totalRewards > 0 guard.
sellPressure_Unguarded(summary) ==
    Frac(summary.exchangeFlow * 100, summary.totalRewards)

\* The guard and quotient of calculateSellPressure (reporter.js 453-456).
sellPressure(summary) ==
    IF summary.totalRewards > 0
    THEN Frac(summary.exchangeFlow * 100, summary.totalRewards)
    ELSE summary.sellPressurePercent

\* Mutant: holders counted once per reward event instead of once per address.
holderCount_PerEvent(details) ==
    LET m == details.rewardsByAddress
        counts == [i \in DOMAIN m |->
                      IF MapHas(details.exchangeFlowsByAddress, m[i].key) THEN 0
                      ELSE m[i].value.count]
    IN SumSeq(counts)

\* The holders loop (reporter.js 459-466): reward addresses that are no key
\* of exchangeFlowsByAddress.
holderCount(details) ==
    Cardinality({i \in DOMAIN details.rewardsByAddress :
                    ~MapHas(details.exchangeFlowsByAddress,
                            details.rewardsByAddress[i].key)})

RECURSIVE SelectSeqHolders(_, _)
SelectSeqHolders(entries, flowsMap) ==
    IF entries = <<>> THEN <<>>
    ELSE LET rest == SelectSeqHolders(Tail(entries), flowsMap)
         IN IF MapHas(flowsMap, Head(entries).key) THEN rest
            ELSE <<Head(entries)>> \o rest

\* Mutant: the ten first sellers in map order, the sort dropped.
topSellers_Unsorted(details) ==
    LET m == details.exchangeFlowsByAddress
        sellers == [i \in DOMAIN m |->
                       [address |-> m[i].key,
                        amount |-> m[i].value.total,
                        count |-> m[i].value.count,
                        quickSell |-> m[i].value.quickSell]]
    IN Slice(sellers, TopN)

\* reporter.js 469-477
topSellers(details) ==
    LET m == details.exchangeFlowsByAddress
        sellers == [i \in DOMAIN m |->
                       [address |-> m[i].key,
                        amount |-> m[i].value.total,
                        count |-> m[i].value.count,
                        quickSell |-> m[i].value.quickSell]]
    IN Slice(SortDesc(sellers, "amount"), TopN)

\* reporter.js 482-490
topHolders(details) ==
    LET kept == SelectSeqHolders(details.rewardsByAddress, details.exchangeFlowsByAddress)
        holders == [i \in DOMAIN kept |->
                       [address |-> kept[i].key,
                        rewards |-> kept[i].value.total,
                        count |-> kept[i].value.count]]
    IN Slice(SortDesc(holders, "rewards"), TopN)

calculateSellPressure(a) ==
    [a EXCEPT !.summary.sellPressurePercent = sellPressure(a.summary),
              !.summary.holders = @ + holderCount(a.details),
              !.details.topSellers = topSellers(a.details),
              !.details.topHolders = topHolders(a.details)]

\* The large deposits of one address, pushed into largeSellersByHour
\* (reporter.js 501-513).
RECURSIVE largeFlowsOfAddress(_, _, _, _)
largeFlowsOfAddress(address, fs, byHour, tz) ==
    IF fs = <<>> THEN byHour
    ELSE LET flow == Head(fs)
             next == IF flow.amount > largeFlowThreshold
                     THEN ObjPush(byHour, getHours(flow.timestamp, tz),
                                  [address |-> address,
                                   amount |-> flow.amount,
                                   exchange |-> flow.exchange.name])
                     ELSE byHour
         IN largeFlowsOfAddress(address, Tail(fs), next, tz)

RECURSIVE largeSellersByHour(_, _, _)
largeSellersByHour(entries, byHour, tz) ==
    IF entries = <<>> THEN byHour
    ELSE largeSellersByHour(Tail(entries),
                            largeFlowsOfAddress(Head(entries).key,
                                                Head(entries).value.flows, byHour, tz),
                            tz)

\* Object.entries(largeSellersByHour) visits the hour keys in ascending
\* order; an hour with at least 3 entries yields one pattern (516-525).
RECURSIVE coordinatedPatterns(_, _)
coordinatedPatterns(byHour, hour) ==
    IF hour >= HoursPerDay THEN <<>>
    ELSE (IF hour \in DOMAIN byHour /\ Len(byHour[hour]) >= 3
          THEN <<[type |-> "coordinated_selling",
                  severity |-> "high",
                  hour |-> hour,
                  sellers |-> Len(byHour[hour]),
                  amount |-> SumAmounts(byHour[hour]),
                  details |-> byHour[hour]]>>
          ELSE <<>>)
         \o coordinatedPatterns(byHour, hour + 1)

\* Mutant: the pattern emitted at exactly 50 too (>= for >).
highSellPressure_AtLeast(summary) ==
    summary.sellPressurePercent.num >= 50 * summary.sellPressurePercent.den

\* sellPressurePercent > 50
highSellPressure(summary) ==
    summary.sellPressurePercent.num > 50 * summary.sellPressurePercent.den

identifyPatterns(a, tz) ==
    LET byHour == largeSellersByHour(a.details.exchangeFlowsByAddress, EmptyObj, tz)
        p1 == coordinatedPatterns(byHour, 0)
        p2 == IF highSellPressure(a.summary)
              THEN <<[type |-> "high_sell_pressure",
                      severity |-> "medium",
                      sellPressurePercent |-> a.summary.sellPressurePercent,
                      details |-> [totalRewards |-> a.summary.totalRewards,
                                   exchangeFlow |-> a.summary.exchangeFlow]]>>
              ELSE <<>>
        p3 == IF a.summary.quickSellers > 10
              THEN <<[type |-> "rapid_selling",
                      severity |-> "medium",
                      details |-> [quickSellers |-> a.summary.quickSellers,
                                   averageTimeToExchange |->
                                       a.summary.averageTimeToExchange]]>>
              ELSE <<>>
    IN [a EXCEPT !.details.suspiciousPatterns = p1 \o p2 \o p3]

\* Mutant: each entry holds its own bucket only, the running sums dropped.
RECURSIVE cumulativeSeries_PerHour(_, _, _, _)
cumulativeSeries_PerHour(trends, hour, cumRewards, cumExchange) ==
    IF hour >= HoursPerDay THEN <<>>
    ELSE LET cumulativeRewards == ObjGet(trends.hourlyRewards, hour)
             cumulativeExchange == ObjGet(trends.hourlyExchangeFlows, hour)
         IN <<[hour |-> hour,
               rewards |-> cumulativeRewards,
               exchange |-> cumulativeExchange,
               pressure |-> IF cumulativeRewards > 0
                            THEN Frac(cumulativeExchange * 100, cumulativeRewards)
                            ELSE Frac(0, 1)]>>
            \o cumulativeSeries_PerHour(trends, hour + 1, 0, 0)

\* The loop of generateTrends from bucket `hour` on, with the running sums.
RECURSIVE cumulativeSeries(_, _, _, _)
cumulativeSeries(trends, hour, cumRewards, cumExchange) ==
    IF hour >= HoursPerDay THEN <<>>
    ELSE LET cumulativeRewards == cumRewards + ObjGet(trends.hourlyRewards, hour)
             cumulativeExchange == cumExchange + ObjGet(trends.hourlyExchangeFlows, hour)
         IN <<[hour |-> hour,
               rewards |-> cumulativeRewards,
               exchange |-> cumulativeExchange,
               pressure |-> IF cumulativeRewards > 0
                            THEN Frac(cumulativeExchange * 100, cumulativeRewards)
                            ELSE Frac(0, 1)]>>
            \o cumulativeSeries(trends, hour + 1, cumulativeRewards, cumulativeExchange)

generateTrends(a) ==
    [a EXCEPT !.trends.cumulativeSellPressure =
                  @ \o cumulativeSeries(a.trends, 0, 0, 0)]

\* analyzeFlows({rewards, transfers, exchangeFlows, topReceivers}) run at wall
\* clock `clock` in a process whose time zone is `tz`.
analyzeFlows(rs, ts, fs, clock, tz) ==
    LET a0 == NewAnalysis(clock)
        a1 == analyzeRewards(rs, a0, tz)
        a2 == analyzeTransfers(ts, a1)
        a3 == analyzeExchangeFlows(fs, a2, tz)
        a4 == calculateSellPressure(a3)
        a5 == identifyPatterns(a4, tz)
    IN generateTrends(a5)

----------------------------------------------------------------------------
\* The analysis as a state machine: analyzeFlows is applied to one input,
\* and applied again to the same input when the clock has moved on.

Addresses == {"a1", "a2"}

\* 23:00 UTC on the third day of the epoch: the next hour bucket wraps to 0.
T0 == 71 * 3600

Now0 == T0 + 10800

TimeZones == {0, 3600}

Exchange == [id |-> "x", name |-> "X", type |-> "cex"]

RewardEvents == [address : Addresses, amount : {0, 100}, timestamp : {T0}]

\* Deposits half an hour and two and a half hours after T0, and withdrawals.
FlowEvents ==
    [from : Addresses, to : {"x1"}, amount : {50}, timestamp : {T0 + 1800, T0 + 9000},
     type : {"deposit"}, exchange : {Exchange}]
    \cup
    [from : Addresses, to : {"x1"}, amount : {50}, timestamp : {T0 + 1800},
     type : {"withdrawal"}, exchange : {Exchange}]

TransferEvents == [from : Addresses, to : {"x1"}, amount : {70}, timestamp : {T0 + 1800}]

\* The sequences over S of length at most n.
SeqUpTo(S, n) == UNION {[1..k -> S] : k \in 0..n}

NoAnalysis == [timestamp |-> -1]

\* JavaScript null, where the other values are objects.
null == [null |-> TRUE]

\* No TransferCollector call has been made.
TransfersIdle ==
    /\ tPhase = "idle"
    /\ tCohort = <<>>
    /\ tStartTime = 0
    /\ tEndTime = 0
    /\ tBatchStart = 0
    /\ tasks = <<>>
    /\ allTransfers = <<>>
    /\ tFailures = 0

\* No RewardCollector call has been made.
RewardsIdle ==
    /\ rPhase = "idle"
    /\ rCohort = <<>>
    /\ rStartTime = 0
    /\ rEndTime = 0
    /\ rIndex = 0
    /\ recentRewards = <<>>
    /\ rFailures = 0
    /\ upstreamRewards = <<>>

\* No discovery run has been started and no receivers file exists.
DiscoveryIdle ==
    /\ dPhase = "idle"
    /\ dEntry = "none"
    /\ dLimit = 0
    /\ dPage = 0
    /\ receivers = <<>>
    /\ dFailedPage = -1
    /\ storedReceivers = <<>>

\* No makeRequest call has been made on the limiter.
LimiterIdle ==
    /\ lCaller = "none"
    /\ lQueued = 0
    /\ lRunning = 0
    /\ lSettled = 0
    /\ lSpaced = TRUE

\* The detector has been given nothing to classify.
DetectorIdle ==
    /\ pStage = "idle"
    /\ givenTransfers = <<>>
    /\ catAddresses = <<>>
    /\ catTransfers = <<>>
    /\ categories = <<>>

\* No run of the tracker has been started and no analysis file exists.
CycleIdle ==
    /\ cEntry = "none"
    /\ cStage = "idle"
    /\ cHours = 0
    /\ cLog = <<>>
    /\ cThrown = "none"
    /\ latestFile = null
    /\ loadedAnalysis = null
    /\ report = null

\* No analysis has been made and none is given an input.
AnalyzerIdle ==
    /\ rewards = <<>>
    /\ transfers = <<>>
    /\ exchangeFlows = <<>>
    /\ tzOffset = 0
    /\ analysis = NoAnalysis
    /\ previous = NoAnalysis
    /\ runs = 0

AnalyzerInit ==
    /\ \E nr \in 0..MaxEvents :
         \E nf \in 0..(MaxEvents - nr) :
            /\ rewards \in [1..nr -> RewardEvents]
            /\ exchangeFlows \in [1..nf -> FlowEvents]
            /\ transfers \in SeqUpTo(TransferEvents, MaxEvents - nr - nf)
    /\ now = Now0
    /\ tzOffset \in TimeZones
    /\ analysis = NoAnalysis
    /\ previous = NoAnalysis
    /\ runs = 0
    /\ TransfersIdle
    /\ RewardsIdle
    /\ DiscoveryIdle
    /\ CycleIdle
    /\ LimiterIdle
    /\ DetectorIdle

\* The first analysis of the input.
Analyze ==
    /\ runs = 0
    /\ analysis' = analyzeFlows(rewards, transfers, exchangeFlows, now, tzOffset)
    /\ previous' = analysis
    /\ runs' = 1
    /\ UNCHANGED <<rewards, transfers, exchangeFlows, now, tzOffset>>
    /\ UNCHANGED <<transferVars, rewardVars, discoveryVars, limiterVars, detectorVars, cycleVars>>

\* The same input analysed again, `elapsed` seconds later.
Reanalyze ==
    /\ runs = 1
    /\ \E elapsed \in 0..MaxTicks :
         /\ now' = now + elapsed
         /\ analysis' = analyzeFlows(rewards, transfers, exchangeFlows, now', tzOffset)
    /\ previous' = analysis
    /\ runs' = 2
    /\ UNCHANGED <<rewards, transfers, exchangeFlows, tzOffset>>
    /\ UNCHANGED <<transferVars, rewardVars, discoveryVars, limiterVars, detectorVars, cycleVars>>

AnalyzerNext == Analyze \/ Reanalyze

SpecAnalyzer == AnalyzerInit /\ [][AnalyzerNext]_vars

----------------------------------------------------------------------------
\* Properties of the analysis, stated over its input and its result.

Analyzed == runs >= 1

\* The sum of the amounts of the deposit flows of the input.
DepositFlows == SelectSeq(exchangeFlows, LAMBDA f : f.type = "deposit")

DepositTotal == SumAmounts(DepositFlows)

RewardTotal == SumAmounts(rewards)

RewardAddresses == {rewards[i].address : i \in DOMAIN rewards}

DepositAddresses == {DepositFlows[i].from : i \in DOMAIN DepositFlows}

\* C1 (as claimed): whenever the reward list is non-empty, sellPressurePercent
\* is >= 0 and is 0 exactly when summary.exchangeFlow is 0.
C1_NonEmptyRewardsZeroIff ==
    (Analyzed /\ Len(rewards) > 0) =>
        /\ FracNonNeg(analysis.summary.sellPressurePercent)
        /\ (FracIsZero(analysis.summary.sellPressurePercent)
              <=> analysis.summary.exchangeFlow = 0)

\* C1 (amended): whenever the rewards sum to more than 0, sellPressurePercent
\* is >= 0 and is 0 exactly when summary.exchangeFlow, the sum of the
\* deposit-flow amounts, is 0.
C1_PositiveRewardsZeroIff ==
    (Analyzed /\ RewardTotal > 0) =>
        /\ FracNonNeg(analysis.summary.sellPressurePercent)
        /\ analysis.summary.exchangeFlow = DepositTotal
        /\ (FracIsZero(analysis.summary.sellPressurePercent) <=> DepositTotal = 0)

\* C1 witness: rewards that include a zero-amount event and still sum to more
\* than 0, with a deposit, analysed to a non-zero percentage.
C1_Witness ==
    /\ Analyzed
    /\ \E i \in DOMAIN rewards : rewards[i].amount = 0
    /\ RewardTotal > 0
    /\ DepositTotal > 0
    /\ ~FracIsZero(analysis.summary.sellPressurePercent)

\* C2 (as claimed): summary.quickSellers never exceeds the number of distinct
\* addresses with at least one deposit flow (the keys of exchangeFlowsByAddress).
C2_QuickSellersAtMostDepositors ==
    Analyzed =>
        analysis.summary.quickSellers
            <= Cardinality(MapKeys(analysis.details.exchangeFlowsByAddress))

\* C3: every reward address is either a holder or an address with a deposit
\* flow, never both: holders + |reward addresses /\ deposit addresses| =
\* |reward addresses|, the holders listed are the reward addresses without a
\* deposit, and with no flows at all holders = |reward addresses|.
C3_HoldersPartition ==
    Analyzed =>
        /\ analysis.summary.holders
             + Cardinality(RewardAddresses \cap DepositAddresses)
           = Cardinality(RewardAddresses)
        /\ Cardinality(RewardAddresses \ DepositAddresses) <= TopN =>
             {analysis.details.topHolders[i].address :
                 i \in DOMAIN analysis.details.topHolders}
             = RewardAddresses \ DepositAddresses
        /\ exchangeFlows = <<>> =>
             analysis.summary.holders = Cardinality(RewardAddresses)

\* C3 witness: two reward addresses, exactly one of which has a deposit flow,
\* analysed to one holder.
C3_Witness ==
    /\ Analyzed
    /\ Cardinality(RewardAddresses) = 2
    /\ Cardinality(RewardAddresses \cap DepositAddresses) = 1
    /\ analysis.summary.holders = 1

\* C4 (as claimed): analysing the identical input twice yields identical
\* results in every field, whatever the wall clock of each run.
C4_RerunIdentical == runs = 2 => analysis = previous

\* C5: sellPressurePercent is 100 * exchangeFlow / totalRewards when
\* totalRewards > 0 and 0 otherwise; with no events at all every summary
\* field is 0.
C5_SellPressureFormula ==
    Analyzed =>
        /\ analysis.summary.totalRewards = RewardTotal
        /\ analysis.summary.exchangeFlow = DepositTotal
        /\ RewardTotal > 0 =>
             /\ analysis.summary.sellPressurePercent.den > 0
             /\ FracEq(analysis.summary.sellPressurePercent,
                       Frac(100 * DepositTotal, RewardTotal))
        /\ RewardTotal <= 0 => analysis.summary.sellPressurePercent = Frac(0, 1)
        /\ (rewards = <<>> /\ transfers = <<>> /\ exchangeFlows = <<>>) =>
             analysis.summary =
                 [totalRewards |-> 0, totalTransfers |-> 0, exchangeFlow |-> 0,
                  sellPressurePercent |-> Frac(0, 1), quickSellers |-> 0,
                  holders |-> 0, averageTimeToExchange |-> Frac(0, 1)]

\* C5 witness: rewards that sum to 0 although deposits were made: the guarded
\* branch, where the quotient would divide by zero.
C5_Witness ==
    /\ Analyzed
    /\ Len(rewards) > 0
    /\ RewardTotal = 0
    /\ DepositTotal > 0
    /\ analysis.summary.sellPressurePercent = Frac(0, 1)

----------------------------------------------------------------------------
\* TransferCollector (src/src/collectors/transferCollector.js).

\* x || 0 of a field the upstream record may lack.
OrZero(raw, field) == IF field \in DOMAIN raw THEN raw[field] ELSE 0

\* The object fetchTransfersForAddress / fetchIncomingTransfers pushes for one
\* upstream record (the pass-through fields extrinsicHash, success, fee and
\* the identities are left out).
mapTransfer(raw) ==
    [from |-> raw.from,
     to |-> raw.to,
     amount |-> OrZero(raw, "amount"),
     timestamp |-> OrZero(raw, "block_timestamp"),
     blockNumber |-> OrZero(raw, "block_num")]

\* What the upstream source may answer: a page of n records of the queried
\* address and direction. A "fresh" page lies inside the window; in a "stale"
\* page the first record is one second older than the window's start; in an
\* "untimed" page the first record carries no block_timestamp.
PagePatterns == {"fresh", "stale", "untimed"}

UpstreamRecord(address, direction, timestamp, page) ==
    [from |-> IF direction = "from" THEN address ELSE "x1",
     to |-> IF direction = "from" THEN "x1" ELSE address,
     amount |-> 5,
     block_timestamp |-> timestamp,
     block_num |-> page]

Untimed(raw) == [f \in DOMAIN raw \ {"block_timestamp"} |-> raw[f]]

UpstreamPage(address, direction, n, pattern, start, page) ==
    [i \in 1..n |->
        IF i = 1 /\ pattern = "stale" THEN UpstreamRecord(address, direction, start - 1, page)
        ELSE IF i = 1 /\ pattern = "untimed"
             THEN Untimed(UpstreamRecord(address, direction, T0, page))
             ELSE UpstreamRecord(address, direction, T0, page)]

\* The page lengths the upstream may return for page index `page`: a full
\* page only while fewer than MaxFullPages full pages went before.
PageSizes(page) ==
    {0, 1, rowsPerPage - 1} \cup (IF page < MaxFullPages THEN {rowsPerPage} ELSE {})

\* The outcome logged for a request that threw.
Failed == -1

\* A fetch task at the top of its while loop, page 0.
NewTask(address, direction) ==
    [address |-> address, direction |-> direction, pc |-> "request", page |-> 0,
     transfers |-> <<>>, asked |-> <<>>, got |-> <<>>]

\* addresses.slice(i, i + batchSize), one task per receiver.
BatchTasks(cohort, i) ==
    LET last == IF Len(cohort) < i + transferBatchSize THEN Len(cohort)
                ELSE i + transferBatchSize
    IN [k \in 1..(last - i) |-> NewTask(cohort[i + k], "from")]

\* The sequences of distinct addresses.
Cohorts == {c \in SeqUpTo(Addresses, Cardinality(Addresses)) :
               \A i, j \in DOMAIN c : i # j => c[i] # c[j]}

\* The requests the limiter has started and that have not yet settled.
InFlight == Cardinality({k \in DOMAIN tasks : tasks[k].pc = "inflight"})

\* trackTransfers(addresses, hours = 24) is called: the window is computed
\* and the first batch's tasks start (an empty cohort returns at once).
StartTrackTransfers ==
    /\ tPhase = "idle"
    /\ \E cohort \in Cohorts :
         /\ tCohort' = cohort
         /\ tasks' = BatchTasks(cohort, 0)
         /\ tPhase' = IF Len(cohort) = 0 THEN "returned" ELSE "tracking"
    /\ tEndTime' = now
    /\ tStartTime' = now - defaultHours * 3600
    /\ tBatchStart' = 0
    /\ UNCHANGED <<allTransfers, tFailures>>
    /\ UNCHANGED <<analyzerVars, rewardVars, discoveryVars, limiterVars, detectorVars, cycleVars>>

\* getTransferHistory(address, days = 30) is called: both directions are
\* fetched concurrently.
StartGetTransferHistory ==
    /\ tPhase = "idle"
    /\ \E address \in Addresses :
         tasks' = <<NewTask(address, "from"), NewTask(address, "to")>>
    /\ tPhase' = "history"
    /\ tEndTime' = now
    /\ tStartTime' = now - 30 * 24 * 3600
    /\ UNCHANGED <<tCohort, tBatchStart, allTransfers, tFailures>>
    /\ UNCHANGED <<analyzerVars, rewardVars, discoveryVars, limiterVars, detectorVars, cycleVars>>

\* makeRequest('/api/scan/transfers', {page, row: rowsPerPage, ...}) of task k
\* is started by the limiter.
IssueRequest(k) ==
    /\ tasks[k].pc = "request"
    /\ InFlight < maxConcurrent
    /\ tasks' = [tasks EXCEPT ![k].pc = "inflight",
                              ![k].asked = Append(@, tasks[k].page)]
    /\ UNCHANGED <<tPhase, tCohort, tStartTime, tEndTime, tBatchStart, allTransfers, tFailures>>
    /\ UNCHANGED <<analyzerVars, rewardVars, discoveryVars, limiterVars, detectorVars, cycleVars>>

\* Mutant: the loop is left after a page of rowsPerPage records too (<= for <).
processPage_StopOnFull(task, page) ==
    IF Len(page) = 0
    THEN [task EXCEPT !.pc = "returned", !.got = Append(@, 0)]
    ELSE [task EXCEPT
            !.transfers = @ \o [i \in DOMAIN page |-> mapTransfer(page[i])],
            !.got = Append(@, Len(page)),
            !.pc = "returned"]

\* The rest of the loop body once `data` has arrived (95-121): an empty or
\* missing list breaks, the records are pushed, a short page breaks, a full
\* page moves on to the next page.
processPage(task, page) ==
    IF Len(page) = 0
    THEN [task EXCEPT !.pc = "returned", !.got = Append(@, 0)]
    ELSE [task EXCEPT
            !.transfers = @ \o [i \in DOMAIN page |-> mapTransfer(page[i])],
            !.got = Append(@, Len(page)),
            !.pc = IF Len(page) < rowsPerPage THEN "returned" ELSE "request",
            !.page = IF Len(page) < rowsPerPage THEN @ ELSE @ + 1]

\* The request of task k succeeds with a page of the upstream's choosing.
ReceivePage(k) ==
    /\ tasks[k].pc = "inflight"
    /\ \E n \in PageSizes(tasks[k].page), pattern \in PagePatterns :
         tasks' = [tasks EXCEPT ![k] =
                      processPage(tasks[k],
                                  UpstreamPage(tasks[k].address, tasks[k].direction,
                                               n, pattern, tStartTime, tasks[k].page))]
    /\ UNCHANGED <<tPhase, tCohort, tStartTime, tEndTime, tBatchStart, allTransfers, tFailures>>
    /\ UNCHANGED <<analyzerVars, rewardVars, discoveryVars, limiterVars, detectorVars, cycleVars>>

\* The catch block of the loop (122-125): the error is logged and the loop
\* is left; the function returns what it has collected.
catchPageError(task) == [task EXCEPT !.pc = "returned", !.got = Append(@, Failed)]

\* The request of task k fails (timeout, transport error, non-zero code).
FailRequest(k) ==
    /\ tasks[k].pc = "inflight"
    /\ tFailures < MaxFailures
    /\ tasks' = [tasks EXCEPT ![k] = catchPageError(tasks[k])]
    /\ tFailures' = tFailures + 1
    /\ UNCHANGED <<tPhase, tCohort, tStartTime, tEndTime, tBatchStart, allTransfers>>
    /\ UNCHANGED <<analyzerVars, rewardVars, discoveryVars, limiterVars, detectorVars, cycleVars>>

\* trackTransfers: the fetch of task k has returned, allTransfers.push(...transfers).
PushTransfers(k) ==
    /\ tPhase = "tracking"
    /\ tasks[k].pc = "returned"
    /\ allTransfers' = allTransfers \o tasks[k].transfers
    /\ tasks' = [tasks EXCEPT ![k].pc = "pushed"]
    /\ UNCHANGED <<tPhase, tCohort, tStartTime, tEndTime, tBatchStart, tFailures>>
    /\ UNCHANGED <<analyzerVars, rewardVars, discoveryVars, limiterVars, detectorVars, cycleVars>>

\* trackTransfers: Promise.all of the batch has settled; after the pause the
\* loop goes on with the next batch or the call returns allTransfers.
FinishBatch ==
    /\ tPhase = "tracking"
    /\ \A k \in DOMAIN tasks : tasks[k].pc = "pushed"
    /\ tBatchStart' = tBatchStart + transferBatchSize
    /\ IF tBatchStart' < Len(tCohort)
       THEN tasks' = BatchTasks(tCohort, tBatchStart') /\ tPhase' = "tracking"
       ELSE tasks' = tasks /\ tPhase' = "returned"
    /\ UNCHANGED <<tCohort, tStartTime, tEndTime, allTransfers, tFailures>>
    /\ UNCHANGED <<analyzerVars, rewardVars, discoveryVars, limiterVars, detectorVars, cycleVars>>

\* getTransferHistory: both fetches have returned; the lists are tagged,
\* joined and sorted by timestamp, newest first.
FinishHistory ==
    /\ tPhase = "history"
    /\ \A k \in DOMAIN tasks : tasks[k].pc = "returned"
    /\ LET tag(list, d) == [i \in DOMAIN list |->
                               [from |-> list[i].from, to |-> list[i].to,
                                amount |-> list[i].amount,
                                timestamp |-> list[i].timestamp,
                                blockNumber |-> list[i].blockNumber, direction |-> d]]
       IN allTransfers' = SortDesc(tag(tasks[1].transfers, "out")
                                   \o tag(tasks[2].transfers, "in"), "timestamp")
    /\ tPhase' = "returned"
    /\ UNCHANGED <<tCohort, tStartTime, tEndTime, tBatchStart, tasks, tFailures>>
    /\ UNCHANGED <<analyzerVars, rewardVars, discoveryVars, limiterVars, detectorVars, cycleVars>>

\* trackTransfers over a cohort of more than one batch, each per-address
\* fetch taken as one step from its start to the push of what it returned.

\* The most addresses of such a cohort.
MaxCohort == 11

ManyAddresses(n) == [i \in 1..n |-> "r" \o ToString(i)]

\* batch.map(async (receiver) => ...): every callback of the batch has run up
\* to its await of fetchTransfersForAddress.
FetchingTasks(cohort, i) ==
    LET batch == BatchTasks(cohort, i)
    IN [k \in DOMAIN batch |-> [batch[k] EXCEPT !.pc = "fetching"]]

StartTrackManyTransfers ==
    /\ tPhase = "idle"
    /\ \E n \in (transferBatchSize + 1)..MaxCohort :
         /\ tCohort' = ManyAddresses(n)
         /\ tasks' = FetchingTasks(ManyAddresses(n), 0)
    /\ tPhase' = "batching"
    /\ tEndTime' = now
    /\ tStartTime' = now - defaultHours * 3600
    /\ tBatchStart' = 0
    /\ UNCHANGED <<allTransfers, tFailures>>
    /\ UNCHANGED <<analyzerVars, rewardVars, discoveryVars, limiterVars, detectorVars, cycleVars>>

\* The callback of task k runs to its end: page 0 is requested, the upstream
\* has no transfer of the address, the fetch returns and its list is pushed.
FetchWhole(k) ==
    /\ tPhase = "batching"
    /\ tasks[k].pc = "fetching"
    /\ LET asked == [tasks[k] EXCEPT !.pc = "inflight", !.asked = Append(@, tasks[k].page)]
           ended == processPage(asked, <<>>)
       IN /\ tasks' = [tasks EXCEPT ![k] = [ended EXCEPT !.pc = "pushed"]]
          /\ allTransfers' = allTransfers \o ended.transfers
    /\ UNCHANGED <<tPhase, tCohort, tStartTime, tEndTime, tBatchStart, tFailures>>
    /\ UNCHANGED <<analyzerVars, rewardVars, discoveryVars, limiterVars, detectorVars, cycleVars>>

\* The same with the request of page 0 failing: the error is caught inside
\* the fetch, which returns its empty list.
FailWhole(k) ==
    /\ tPhase = "batching"
    /\ tasks[k].pc = "fetching"
    /\ tFailures < MaxFailures
    /\ LET asked == [tasks[k] EXCEPT !.pc = "inflight", !.asked = Append(@, tasks[k].page)]
           ended == catchPageError(asked)
       IN /\ tasks' = [tasks EXCEPT ![k] = [ended EXCEPT !.pc = "pushed"]]
          /\ allTransfers' = allTransfers \o ended.transfers
    /\ tFailures' = tFailures + 1
    /\ UNCHANGED <<tPhase, tCohort, tStartTime, tEndTime, tBatchStart>>
    /\ UNCHANGED <<analyzerVars, rewardVars, discoveryVars, limiterVars, detectorVars, cycleVars>>

\* Mutant: the batch is taken as settled once its first callback has ended.
batchSettled_FirstOnly == tasks[1].pc = "pushed"

\* await Promise.all(batch.map(...)): every callback of the batch has ended.
batchSettled == \A k \in DOMAIN tasks : tasks[k].pc = "pushed"

\* Promise.all of the batch has settled; after the pause the for loop goes
\* on with the next slice or the call returns allTransfers.
FinishManyBatch ==
    /\ tPhase = "batching"
    /\ batchSettled
    /\ tBatchStart' = tBatchStart + transferBatchSize
    /\ IF tBatchStart' < Len(tCohort)
       THEN tasks' = FetchingTasks(tCohort, tBatchStart') /\ tPhase' = "batching"
       ELSE tasks' = tasks /\ tPhase' = "returned"
    /\ UNCHANGED <<tCohort, tStartTime, tEndTime, allTransfers, tFailures>>
    /\ UNCHANGED <<analyzerVars, rewardVars, discoveryVars, limiterVars, detectorVars, cycleVars>>

TransfersInit ==
    /\ AnalyzerIdle /\ now = Now0 /\ TransfersIdle /\ RewardsIdle /\ DiscoveryIdle
    /\ CycleIdle
    /\ LimiterIdle /\ DetectorIdle

TransfersNext ==
    \/ StartTrackTransfers
    \/ StartGetTransferHistory
    \/ \E k \in DOMAIN tasks : IssueRequest(k)
    \/ \E k \in DOMAIN tasks : ReceivePage(k)
    \/ \E k \in DOMAIN tasks : FailRequest(k)
    \/ \E k \in DOMAIN tasks : PushTransfers(k)
    \/ FinishBatch
    \/ FinishHistory

SpecTransfers == TransfersInit /\ [][TransfersNext]_vars

BatchesNext ==
    \/ StartTrackTransfers
    \/ StartGetTransferHistory
    \/ \E k \in DOMAIN tasks : IssueRequest(k)
    \/ \E k \in DOMAIN tasks : ReceivePage(k)
    \/ \E k \in DOMAIN tasks : FailRequest(k)
    \/ \E k \in DOMAIN tasks : PushTransfers(k)
    \/ FinishBatch
    \/ FinishHistory
    \/ StartTrackManyTransfers
    \/ \E k \in DOMAIN tasks : FetchWhole(k)
    \/ \E k \in DOMAIN tasks : FailWhole(k)
    \/ FinishManyBatch

\* trackTransfers with its fetches step by step over a cohort of one batch,
\* and fetch by fetch over a cohort of more than one batch.
SpecBatches == TransfersInit /\ [][BatchesNext]_vars

----------------------------------------------------------------------------
\* Properties of the transfer collection.

\* trackTransfers has returned allTransfers for a non-empty cohort.
TrackReturned == tPhase = "returned" /\ tCohort # <<>>

FetchEnded(task) == task.pc \in {"returned", "pushed"}

\* C6: in fetchTransfersForAddress and fetchIncomingTransfers the pages are
\* asked for in the order 0, 1, 2, ...; after a page of exactly rowsPerPage
\* records the query goes on to the next page index (it has been requested,
\* or the task stands at the request for it), and after a page of fewer
\* records, an empty one included, no further request of the query is issued.
C6_PaginationContinuesAndStops ==
    \A k \in DOMAIN tasks :
        LET t == tasks[k] IN
        /\ \A j \in DOMAIN t.asked : t.asked[j] = j - 1
        /\ \A j \in DOMAIN t.got :
             /\ t.got[j] = rowsPerPage =>
                  \/ Len(t.asked) > j /\ t.asked[j + 1] = t.asked[j] + 1
                  \/ Len(t.asked) = j /\ t.pc = "request" /\ t.page = t.asked[j] + 1
             /\ (t.got[j] >= 0 /\ t.got[j] < rowsPerPage) =>
                  Len(t.asked) = j /\ FetchEnded(t)

\* C6 witness: an incoming-transfer fetch that received a full page, asked for
\* page 1, received a short page and ended with both pages' records.
C6_Witness ==
    \E k \in DOMAIN tasks :
        /\ tasks[k].direction = "to"
        /\ tasks[k].asked = <<0, 1>>
        /\ tasks[k].got = <<rowsPerPage, rowsPerPage - 1>>
        /\ FetchEnded(tasks[k])
        /\ Len(tasks[k].transfers) = 2 * rowsPerPage - 1

\* C7 (as claimed): when the fetch of one cohort address fails, on whatever
\* page, that address contributes no event to the collected result, and every
\* address of the cohort has been fetched.
C7_FailedAddressContributesNothing ==
    TrackReturned =>
        \A k \in DOMAIN tasks :
            /\ Len(tasks[k].asked) >= 1
            /\ (\E j \in DOMAIN tasks[k].got : tasks[k].got[j] = Failed) =>
                 \A i \in DOMAIN allTransfers :
                     allTransfers[i].from # tasks[k].address

\* The places of a list where the events of a new sender begin.
RunStarts(list, address) ==
    {i \in DOMAIN list :
        list[i].from = address /\ (i = 1 \/ list[i - 1].from # address)}

\* The records of a list that came with page index `page`.
OfPage(list, page) == Cardinality({i \in DOMAIN list : list[i].blockNumber = page})

\* In a call of trackTransfers the tasks are those of the current slice of
\* the cohort, so requests are issued for its addresses only.
TasksAreCurrentBatch ==
    (tCohort # <<>> /\ tPhase # "returned") =>
        /\ Len(tasks) = IF Len(tCohort) - tBatchStart < transferBatchSize
                        THEN Len(tCohort) - tBatchStart ELSE transferBatchSize
        /\ \A k \in DOMAIN tasks : tasks[k].address = tCohort[tBatchStart + k]

\* Within one address the pages are asked for in the order 0, 1, 2, ... and
\* the records of each answered page are appended after those of the pages
\* before.
PagesInOrder ==
    \A k \in DOMAIN tasks :
        LET t == tasks[k] IN
        /\ \A j \in DOMAIN t.asked : t.asked[j] = j - 1
        /\ \A j \in DOMAIN t.got : t.got[j] > 0 => OfPage(t.transfers, j - 1) = t.got[j]
        /\ \A i \in DOMAIN t.transfers :
             i > 1 => t.transfers[i - 1].blockNumber <= t.transfers[i].blockNumber

\* In the result of trackTransfers each address's events stand together, in
\* page order.
ResultContiguous ==
    tCohort # <<>> =>
        /\ \A k \in DOMAIN tCohort : Cardinality(RunStarts(allTransfers, tCohort[k])) <= 1
        /\ \A i \in DOMAIN allTransfers :
             (i > 1 /\ allTransfers[i - 1].from = allTransfers[i].from) =>
                 allTransfers[i - 1].blockNumber <= allTransfers[i].blockNumber

\* The for loop moves to the next slice only when every fetch of the current
\* one has ended, returned or failed and caught, and its list is pushed.
NextBatchAfterAllEnded ==
    tBatchStart' # tBatchStart =>
        /\ tBatchStart' = tBatchStart + transferBatchSize
        /\ \A k \in DOMAIN tasks : FetchEnded(tasks[k]) /\ Len(tasks[k].asked) >= 1

\* C24: in trackTransfers the batches of 10 addresses are processed one
\* after the other: requests are issued for the addresses of the current
\* batch only, and the next batch begins only when every fetch of the
\* current one has ended, successfully or with a caught failure; within one
\* address the pages are requested and appended in increasing page order, and
\* in the result each address's transfers stand together in page order.
C24_BatchesSequentialPagesInOrder ==
    /\ [](TasksAreCurrentBatch /\ PagesInOrder /\ ResultContiguous)
    /\ [][NextBatchAfterAllEnded]_vars

\* C24 witness: a cohort of eleven addresses whose first ten fetches have all
\* ended, one of them with a caught failure, and the request of the eleventh
\* address has been issued.
C24_Witness ==
    /\ Len(tCohort) = transferBatchSize + 1
    /\ tBatchStart = transferBatchSize
    /\ tFailures = 1
    /\ Len(tasks) = 1
    /\ tasks[1].address = tCohort[transferBatchSize + 1]
    /\ tasks[1].asked = <<0>>

\* C10 (as claimed): every event trackTransfers returns has a timestamp inside
\* the window computed when the call started, whatever the upstream returned.
C10_ReturnedEventsInsideWindow ==
    TrackReturned =>
        \A i \in DOMAIN allTransfers :
            /\ tStartTime <= allTransfers[i].timestamp
            /\ allTransfers[i].timestamp <= tEndTime

----------------------------------------------------------------------------
\* RewardCollector.fetchRecentRewards (src/src/collectors/rewardCollector.js).

\* How many reward events the upstream may hold for one address inside the
\* window: none, one, exactly one request's worth, and one more than that.
HeldCounts == {0, 1, rewardRows, rewardRows + 1}

\* The reward records the upstream holds for an address: `held` events inside
\* the window, newest first, and, when `old`, a last one older than the window.
UpstreamRewardList(held, old, start) ==
    [j \in 1..held |-> [amount |-> 10, block_timestamp |-> T0, event_id |-> j]]
    \o (IF old THEN <<[amount |-> 10, block_timestamp |-> start - 1,
                       event_id |-> held + 1]>>
        ELSE <<>>)

\* The list the upstream answers to {address, row, page}: page `page` of the
\* address's records, `row` records to a page.
RewardPage(held, row, page) ==
    SubSeq(held, page * row + 1,
           IF Len(held) < (page + 1) * row THEN Len(held) ELSE (page + 1) * row)

\* parseFloat(reward.amount || 0) / 1e10: the amount in DOT, kept as the
\* planck numerator and the decimal exponent of the divisor.
toDOT(raw) == [planck |-> OrZero(raw, "amount"), perDOT10 |-> 10]

\* The loop over data.list (117-131): the records inside the window, mapped.
RECURSIVE windowedRewards(_, _, _, _)
windowedRewards(list, address, start, end) ==
    IF list = <<>> THEN <<>>
    ELSE LET reward == Head(list)
             rewardTimestamp == OrZero(reward, "block_timestamp")
             rest == windowedRewards(Tail(list), address, start, end)
         IN IF rewardTimestamp >= start /\ rewardTimestamp <= end
            THEN <<[address |-> address,
                    amount |-> toDOT(reward),
                    timestamp |-> rewardTimestamp,
                    eventId |-> reward.event_id,
                    type |-> "staking_reward"]>> \o rest
            ELSE rest

\* After the pause that ends one receiver's turn: the next receiver, or return.
NextReceiver ==
    /\ rIndex' = rIndex + 1
    /\ rPhase' = IF rIndex + 1 > Len(rCohort) THEN "returned" ELSE "request"

\* fetchRecentRewards(addresses, hours = 24) is called against an upstream
\* that holds some reward records for each address.
StartFetchRecentRewards ==
    /\ rPhase = "idle"
    /\ \E cohort \in Cohorts :
         /\ rCohort' = cohort
         /\ rPhase' = IF Len(cohort) = 0 THEN "returned" ELSE "request"
    /\ rEndTime' = now
    /\ rStartTime' = now - defaultHours * 3600
    /\ rIndex' = 1
    /\ \E held \in [Addresses -> HeldCounts], old \in [Addresses -> BOOLEAN] :
         upstreamRewards' = [a \in Addresses |->
                                UpstreamRewardList(held[a], old[a], rStartTime')]
    /\ UNCHANGED <<recentRewards, rFailures>>
    /\ UNCHANGED <<analyzerVars, transferVars, discoveryVars, limiterVars, detectorVars, cycleVars>>

\* makeRequest('/api/scan/account/reward_slash', {address, row: 20, page: 0}).
RequestRewards ==
    /\ rPhase = "request"
    /\ rPhase' = "inflight"
    /\ UNCHANGED <<rCohort, rStartTime, rEndTime, rIndex, recentRewards, rFailures,
                   upstreamRewards>>
    /\ UNCHANGED <<analyzerVars, transferVars, discoveryVars, limiterVars, detectorVars, cycleVars>>

\* The request succeeds: the windowed records of the page are pushed.
ReceiveRewards ==
    /\ rPhase = "inflight"
    /\ recentRewards' =
           recentRewards \o
           windowedRewards(RewardPage(upstreamRewards[rCohort[rIndex]], rewardRows, 0),
                           rCohort[rIndex], rStartTime, rEndTime)
    /\ NextReceiver
    /\ UNCHANGED <<rCohort, rStartTime, rEndTime, rFailures, upstreamRewards>>
    /\ UNCHANGED <<analyzerVars, transferVars, discoveryVars, limiterVars, detectorVars, cycleVars>>

\* The request fails: the catch block logs at debug level and the loop goes on.
FailRewards ==
    /\ rPhase = "inflight"
    /\ rFailures < MaxFailures
    /\ rFailures' = rFailures + 1
    /\ NextReceiver
    /\ UNCHANGED <<rCohort, rStartTime, rEndTime, recentRewards, upstreamRewards>>
    /\ UNCHANGED <<analyzerVars, transferVars, discoveryVars, limiterVars, detectorVars, cycleVars>>

RewardsInit ==
    /\ AnalyzerIdle /\ now = Now0 /\ TransfersIdle /\ RewardsIdle /\ DiscoveryIdle
    /\ CycleIdle
    /\ LimiterIdle /\ DetectorIdle

RewardsNext ==
    \/ StartFetchRecentRewards
    \/ RequestRewards
    \/ ReceiveRewards
    \/ FailRewards

SpecRewards == RewardsInit /\ [][RewardsNext]_vars

----------------------------------------------------------------------------
\* Properties of the reward collection.

\* The records the upstream holds for an address inside the call's window.
HeldInWindow(address) ==
    {j \in DOMAIN upstreamRewards[address] :
        /\ upstreamRewards[address][j].block_timestamp >= rStartTime
        /\ upstreamRewards[address][j].block_timestamp <= rEndTime}

\* C9 (as claimed): when every request succeeded, fetchRecentRewards returns
\* every reward event the upstream holds inside the window for every cohort
\* address, however many events an address has.
C9_AllWindowRewardsReturned ==
    (rPhase = "returned" /\ rFailures = 0) =>
        \A c \in DOMAIN rCohort :
            \A j \in HeldInWindow(rCohort[c]) :
                \E i \in DOMAIN recentRewards :
                    /\ recentRewards[i].address = rCohort[c]
                    /\ recentRewards[i].eventId =
                           upstreamRewards[rCohort[c]][j].event_id

\* Every reward event returned lies inside the window of the call (the part
\* of C10 that concerns fetchRecentRewards).
RewardsInsideWindow ==
    \A i \in DOMAIN recentRewards :
        /\ rStartTime <= recentRewards[i].timestamp
        /\ recentRewards[i].timestamp <= rEndTime

----------------------------------------------------------------------------
\* Top-receiver discovery: RewardCollector.fetchTopRewardReceivers as called
\* by InflationTracker.initialize (src/src/tracker.js) and by the
\* fetch-receivers command (src/index.js).

\* The --limit values the fetch-receivers command is run with.
CommandLimits == {1, rowsPerPage + 50, defaultLimit}

\* The account the upstream lists at position i of page `page`.
UpstreamAccount(page, i) == [address |-> page * rowsPerPage + i, balance |-> 7]

\* The receiver pushed for one account (70-77).
mapAccount(account) ==
    [address |-> account.address,
     totalRewards |-> 0,
     rewardCount |-> 0,
     lastRewardBlock |-> 0,
     identity |-> "null",
     balance |-> OrZero(account, "balance")]

\* The page lengths the upstream may return to the discovery query: full
\* pages while fewer than MaxFullPages went before, then at most one short
\* page, then empty pages.
AccountPageSizes(page) ==
    {0} \cup (IF page < MaxFullPages THEN {rowsPerPage} ELSE {})
        \cup (IF page <= MaxFullPages THEN {1, rowsPerPage - 1} ELSE {})

\* A receivers file left by an earlier run.
EarlierReceivers == <<mapAccount(UpstreamAccount(0, 1))>>

\* `node index.js track`: the tracker module runs initialize().
StartInitialize ==
    /\ dPhase = "idle"
    /\ dEntry' = "initialize"
    /\ dPhase' = "loadExchanges"
    /\ storedReceivers' \in {<<>>, EarlierReceivers}
    /\ UNCHANGED <<dLimit, dPage, receivers, dFailedPage>>
    /\ UNCHANGED <<analyzerVars, transferVars, rewardVars, limiterVars, detectorVars, cycleVars>>

\* initialize: loadExchangeAddresses() returns, or throws and the run is
\* aborted by the caller (tracker.js 137-139).
LoadExchangeAddresses ==
    /\ dPhase = "loadExchanges"
    /\ dPhase' \in {"loadReceivers", "aborted"}
    /\ UNCHANGED <<dEntry, dLimit, dPage, receivers, dFailedPage, storedReceivers>>
    /\ UNCHANGED <<analyzerVars, transferVars, rewardVars, limiterVars, detectorVars, cycleVars>>

\* initialize: loadTopReceivers(); a non-empty stored list skips discovery,
\* otherwise fetchTopRewardReceivers() is called with the default limit.
LoadTopReceivers ==
    /\ dPhase = "loadReceivers"
    /\ IF Len(storedReceivers) = 0
       THEN /\ dLimit' = defaultLimit
            /\ dPhase' = IF 0 < defaultLimit THEN "request" ELSE "collected"
       ELSE /\ dLimit' = dLimit
            /\ dPhase' = "started"
    /\ UNCHANGED <<dEntry, dPage, receivers, dFailedPage, storedReceivers>>
    /\ UNCHANGED <<analyzerVars, transferVars, rewardVars, limiterVars, detectorVars, cycleVars>>

\* `node index.js fetch-receivers --limit n`.
StartFetchReceiversCommand ==
    /\ dPhase = "idle"
    /\ dEntry' = "fetch-receivers"
    /\ \E limit \in CommandLimits :
         /\ dLimit' = limit
         /\ dPhase' = IF 0 < limit THEN "request" ELSE "collected"
    /\ storedReceivers' \in {<<>>, EarlierReceivers}
    /\ UNCHANGED <<dPage, receivers, dFailedPage>>
    /\ UNCHANGED <<analyzerVars, transferVars, rewardVars, limiterVars, detectorVars, cycleVars>>

\* makeRequest('/api/scan/accounts', {row: rowsPerPage, page, ...}).
RequestAccounts ==
    /\ dPhase = "request"
    /\ dPhase' = "inflight"
    /\ UNCHANGED <<dEntry, dLimit, dPage, receivers, dFailedPage, storedReceivers>>
    /\ UNCHANGED <<analyzerVars, transferVars, rewardVars, limiterVars, detectorVars, cycleVars>>

\* The accounts of a page pushed while receivers.length < limit (67-78).
RECURSIVE pushAccounts(_, _, _)
pushAccounts(list, got, limit) ==
    IF list = <<>> \/ Len(got) >= limit THEN got
    ELSE pushAccounts(Tail(list), Append(got, mapAccount(Head(list))), limit)

\* The request succeeds with n accounts: an empty list leaves the loop;
\* otherwise the accounts are pushed, page is incremented and the while
\* condition receivers.length < limit decides whether another page is asked.
ReceiveAccounts ==
    /\ dPhase = "inflight"
    /\ \E n \in AccountPageSizes(dPage) :
         IF n = 0
         THEN /\ dPhase' = "collected"
              /\ UNCHANGED <<receivers, dPage>>
         ELSE /\ receivers' = pushAccounts([i \in 1..n |-> UpstreamAccount(dPage, i)],
                                           receivers, dLimit)
              /\ dPage' = dPage + 1
              /\ dPhase' = IF Len(receivers') < dLimit THEN "request" ELSE "collected"
    /\ UNCHANGED <<dEntry, dLimit, dFailedPage, storedReceivers>>
    /\ UNCHANGED <<analyzerVars, transferVars, rewardVars, limiterVars, detectorVars, cycleVars>>

\* The request fails: the catch block (85-88) logs the error and leaves the
\* loop; fetchTopRewardReceivers goes on to return `receivers`.
FailAccounts ==
    /\ dPhase = "inflight"
    /\ dFailedPage' = dPage
    /\ dPhase' = "collected"
    /\ UNCHANGED <<dEntry, dLimit, dPage, receivers, storedReceivers>>
    /\ UNCHANGED <<analyzerVars, transferVars, rewardVars, limiterVars, detectorVars, cycleVars>>

\* fetchTopRewardReceivers has returned `receivers`: the caller saves them
\* (saveTopReceivers writes the file, or fails, logs and returns false) and
\* goes on: initialize completes and the tracker starts; the command reports
\* success.
SaveTopReceivers ==
    /\ dPhase = "collected"
    /\ storedReceivers' \in {receivers, storedReceivers}
    /\ dPhase' = IF dEntry = "initialize" THEN "started" ELSE "commandDone"
    /\ UNCHANGED <<dEntry, dLimit, dPage, receivers, dFailedPage>>
    /\ UNCHANGED <<analyzerVars, transferVars, rewardVars, limiterVars, detectorVars, cycleVars>>

DiscoveryInit ==
    /\ AnalyzerIdle /\ now = Now0 /\ TransfersIdle /\ RewardsIdle /\ DiscoveryIdle
    /\ CycleIdle
    /\ LimiterIdle /\ DetectorIdle

DiscoveryNext ==
    \/ StartInitialize
    \/ LoadExchangeAddresses
    \/ LoadTopReceivers
    \/ StartFetchReceiversCommand
    \/ RequestAccounts
    \/ ReceiveAccounts
    \/ FailAccounts
    \/ SaveTopReceivers

SpecDiscovery == DiscoveryInit /\ [][DiscoveryNext]_vars

----------------------------------------------------------------------------
\* Properties of the discovery.

\* C8 (as claimed): once a page request of fetchTopRewardReceivers has failed,
\* the discovery is aborted with the error surfaced: no receiver list is
\* handed to the caller to be saved, and the run does not go on (the tracker
\* does not start, the command does not report success).
C8_DiscoveryFailureAborts ==
    dFailedPage >= 0 => dPhase = "aborted"

\* C23 (as claimed): fetchTopRewardReceivers asks for pages 0, 1, 2, ... and
\* stops asking as soon as a page came back with fewer than rowsPerPage
\* records, or empty, or `limit` receivers are collected: while a request is
\* about to be issued or in flight, every page received so far was full and
\* fewer than `limit` receivers are collected; never more than `limit`
\* receivers are collected.
C23_StopsAtShortPage ==
    /\ dPhase \in {"request", "inflight"} =>
          /\ Len(receivers) = dPage * rowsPerPage
          /\ Len(receivers) < dLimit
    /\ Len(receivers) <= dLimit

----------------------------------------------------------------------------
\* The rate limiter of a collector: every makeRequest call goes through
\* this.limiter.schedule of the instance's one Bottleneck({minTime: 200,
\* maxConcurrent: 5}) (transferCollector.js 11-19, rewardCollector.js 11-19).

\* The methods that call makeRequest from concurrently running tasks.
ConcurrentCallers == {"trackTransfers", "fetchAccountDetails", "getTransferHistory"}

\* How many tasks of one Promise.all call makeRequest at the same moment: a
\* batch of trackTransfers, a batch of fetchAccountDetails, the two
\* directions of getTransferHistory.
BatchOf(caller) ==
    IF caller = "trackTransfers" THEN transferBatchSize
    ELSE IF caller = "fetchAccountDetails" THEN accountBatchSize
    ELSE 2

\* The callers whose tasks call makeRequest again after a full page.
Paginating == {"trackTransfers", "getTransferHistory"}

\* Mutant: a job is started while the running count has not passed the cap.
limiterHasRoom_Inclusive(running) == running <= maxConcurrent

\* maxConcurrent: a queued job is started only while fewer than
\* maxConcurrent jobs are running.
limiterHasRoom(running) == running < maxConcurrent

\* Promise.all(batch.map(...)): every task of the batch runs up to its first
\* await, which is makeRequest -> limiter.schedule: n jobs are queued at once.
ScheduleBatch ==
    /\ lCaller = "none"
    /\ \E caller \in ConcurrentCallers :
         /\ lCaller' = caller
         /\ \E n \in 1..BatchOf(caller) : lQueued' = n
    /\ UNCHANGED <<lRunning, lSettled, lSpaced>>
    /\ UNCHANGED <<analyzerVars, transferVars, rewardVars, discoveryVars, detectorVars, cycleVars>>

\* The limiter starts the oldest queued job: axios.post is sent.
StartJob ==
    /\ lQueued > 0
    /\ limiterHasRoom(lRunning)
    /\ lSpaced
    /\ lQueued' = lQueued - 1
    /\ lRunning' = lRunning + 1
    /\ lSpaced' = FALSE
    /\ UNCHANGED <<lCaller, lSettled>>
    /\ UNCHANGED <<analyzerVars, transferVars, rewardVars, discoveryVars, detectorVars, cycleVars>>

\* minTime has passed since the last job was started.
MinTimeElapsed ==
    /\ ~lSpaced
    /\ lSpaced' = TRUE
    /\ UNCHANGED <<lCaller, lQueued, lRunning, lSettled>>
    /\ UNCHANGED <<analyzerVars, transferVars, rewardVars, discoveryVars, detectorVars, cycleVars>>

\* A running job settles (the response arrives, or the request throws) and
\* its task makes no further request.
SettleJob ==
    /\ lRunning > 0
    /\ lRunning' = lRunning - 1
    /\ lSettled' = lSettled + 1
    /\ UNCHANGED <<lCaller, lQueued, lSpaced>>
    /\ UNCHANGED <<analyzerVars, transferVars, rewardVars, discoveryVars, detectorVars, cycleVars>>

\* A running job of a paginating fetch settles with a full page and its task
\* calls makeRequest for the next page at once.
SettleJobAndAskNextPage ==
    /\ lRunning > 0
    /\ lCaller \in Paginating
    /\ lSettled < MaxFullPages * BatchOf(lCaller)
    /\ lRunning' = lRunning - 1
    /\ lSettled' = lSettled + 1
    /\ lQueued' = lQueued + 1
    /\ UNCHANGED <<lCaller, lSpaced>>
    /\ UNCHANGED <<analyzerVars, transferVars, rewardVars, discoveryVars, detectorVars, cycleVars>>

LimiterInit ==
    /\ AnalyzerIdle /\ now = Now0 /\ TransfersIdle /\ RewardsIdle /\ DiscoveryIdle
    /\ CycleIdle
    /\ LimiterIdle /\ DetectorIdle

LimiterNext ==
    \/ ScheduleBatch
    \/ StartJob
    \/ MinTimeElapsed
    \/ SettleJob
    \/ SettleJobAndAskNextPage

SpecLimiter == LimiterInit /\ [][LimiterNext]_vars

\* C11: at no time are more than maxConcurrent (5) requests of one collector
\* instance in flight, however many tasks call makeRequest concurrently.
C11_AtMostFiveInFlight == lRunning <= maxConcurrent

\* C11 witness: a fetchAccountDetails batch with five requests in flight and
\* more than five further callers held back by the limiter.
C11_Witness ==
    /\ lCaller = "fetchAccountDetails"
    /\ lRunning = maxConcurrent
    /\ lQueued > maxConcurrent


----------------------------------------------------------------------------
\* C12 (as claimed): a request that failed is issued again, for the same
\* page of the same query, at least once before the fetch gives up on the
\* item: every fetch that has ended after a failed request asked for the
\* failed page more than once.
C12_FailedRequestIssuedAgain ==
    \A k \in DOMAIN tasks :
        LET t == tasks[k] IN
        FetchEnded(t) =>
            \A j \in DOMAIN t.got :
                t.got[j] = Failed =>
                    \E j2 \in DOMAIN t.asked : j2 # j /\ t.asked[j2] = t.asked[j]


----------------------------------------------------------------------------
\* ExchangeDetector (src/src/analyzers/exchangeDetector.js) in the tracking
\* cycle: exchangeFlows = detectExchangeTransfers(transfers), then
\* analyzeFlows({rewards, transfers, exchangeFlows}) (tracker.js 59-69).

\* this.exchangeByAddress as loadExchangeAddresses builds it: each registry
\* address mapped to {id, name, type} of its exchange.
exchangeByAddress ==
    [address \in {"x1", "x2"} |->
        IF address = "x1" THEN Exchange ELSE [id |-> "y", name |-> "Y", type |-> "cex"]]

isExchangeAddress(address) == address \in DOMAIN exchangeByAddress

\* this.exchangeByAddress.get(address) || null
getExchangeInfo(address) ==
    IF address \in DOMAIN exchangeByAddress THEN exchangeByAddress[address] ELSE null

\* Mutant: a transfer sent by a registry address is pushed as a deposit too.
flowsOfTransfer_BothDeposits(transfer) ==
    (IF getExchangeInfo(transfer.to) # null
     THEN <<[type |-> "deposit", exchange |-> getExchangeInfo(transfer.to),
             exchangeAddress |-> transfer.to] @@ transfer>>
     ELSE <<>>)
    \o
    (IF getExchangeInfo(transfer.from) # null
     THEN <<[type |-> "deposit", exchange |-> getExchangeInfo(transfer.from),
             exchangeAddress |-> transfer.from] @@ transfer>>
     ELSE <<>>)

\* Mutant: the second test made an else-if of the first.
flowsOfTransfer_ElseIf(transfer) ==
    IF getExchangeInfo(transfer.to) # null
    THEN <<[type |-> "deposit", exchange |-> getExchangeInfo(transfer.to),
            exchangeAddress |-> transfer.to] @@ transfer>>
    ELSE IF getExchangeInfo(transfer.from) # null
         THEN <<[type |-> "withdrawal", exchange |-> getExchangeInfo(transfer.from),
                 exchangeAddress |-> transfer.from] @@ transfer>>
         ELSE <<>>

\* One iteration of the loop of detectExchangeTransfers (56-77): the flows
\* pushed for one transfer, each a copy of the transfer ({...transfer, ...})
\* with type, exchange and exchangeAddress set.
flowsOfTransfer(transfer) ==
    LET toExchange == getExchangeInfo(transfer.to)
        fromExchange == getExchangeInfo(transfer.from)
    IN (IF toExchange # null
        THEN <<[type |-> "deposit", exchange |-> toExchange,
                exchangeAddress |-> transfer.to] @@ transfer>>
        ELSE <<>>)
       \o
       (IF fromExchange # null
        THEN <<[type |-> "withdrawal", exchange |-> fromExchange,
                exchangeAddress |-> transfer.from] @@ transfer>>
        ELSE <<>>)

RECURSIVE detectExchangeTransfers(_)
detectExchangeTransfers(ts) ==
    IF ts = <<>> THEN <<>>
    ELSE flowsOfTransfer(Head(ts)) \o detectExchangeTransfers(Tail(ts))

\* The transfers a tracking cycle may have collected: sent by a cohort
\* address or by a registry address, to a registry address or to another.
CollectedTransfers ==
    [from : {"a1", "x1"}, to : {"x2", "a2"}, amount : {0, 70}, timestamp : {T0 + 1800}]

\* Steps 2 and 3 of the cycle have returned recentRewards and transfers.
PipelineInit ==
    /\ \E nr \in 0..MaxEvents :
         /\ rewards \in [1..nr -> RewardEvents]
         /\ transfers \in SeqUpTo(CollectedTransfers, MaxEvents - nr)
    /\ exchangeFlows = <<>>
    /\ now = Now0
    /\ tzOffset \in TimeZones
    /\ analysis = NoAnalysis
    /\ previous = NoAnalysis
    /\ runs = 0
    /\ pStage = "collected"
    /\ givenTransfers = transfers
    /\ catAddresses = <<>>
    /\ catTransfers = <<>>
    /\ categories = <<>>
    /\ TransfersIdle
    /\ RewardsIdle
    /\ DiscoveryIdle
    /\ CycleIdle
    /\ LimiterIdle

\* Step 4: exchangeFlows = detectExchangeTransfers(transfers).
DetectExchangeTransfers ==
    /\ pStage = "collected"
    /\ exchangeFlows' = detectExchangeTransfers(transfers)
    /\ pStage' = "detected"
    /\ UNCHANGED <<rewards, transfers, now, tzOffset, analysis, previous, runs>>
    /\ UNCHANGED <<givenTransfers, catAddresses, catTransfers, categories>>
    /\ UNCHANGED <<transferVars, rewardVars, discoveryVars, limiterVars, cycleVars>>

\* Step 5: analyzeFlows on the collected lists and the detected flows.
AnalyzeDetected == pStage = "detected" /\ Analyze

PipelineNext == DetectExchangeTransfers \/ AnalyzeDetected

SpecPipeline == PipelineInit /\ [][PipelineNext]_vars

\* The from, to, amount and timestamp of a transfer or of a flow.
TransferFields(x) ==
    [from |-> x.from, to |-> x.to, amount |-> x.amount, timestamp |-> x.timestamp]

FlowsOfType(type) ==
    LET fs == SelectSeq(exchangeFlows, LAMBDA f : f.type = type)
    IN [i \in DOMAIN fs |-> TransferFields(fs[i])]

\* C13: in a pipeline run, for every address the analyzer's per-address
\* exchange total is at most the address's outgoing transfer total
\* (exchangeFlowsByAddress[a].total <= transfersByAddress[a].total), transfers
\* between two registry addresses included.
C13_ExchangeTotalAtMostTransferTotal ==
    (pStage = "detected" /\ Analyzed) =>
        \A i \in DOMAIN analysis.details.exchangeFlowsByAddress :
            LET e == analysis.details.exchangeFlowsByAddress[i] IN
            /\ MapHas(analysis.details.transfersByAddress, e.key)
            /\ e.value.total <= MapGet(analysis.details.transfersByAddress, e.key).total

\* C13 witness: a transfer of a positive amount between two registry
\* addresses and a cohort address with one deposit among two transfers,
\* analysed: the sender's exchange total equals its transfer total, the
\* cohort address's is smaller.
C13_Witness ==
    /\ pStage = "detected" /\ Analyzed
    /\ MapHas(analysis.details.exchangeFlowsByAddress, "x1")
    /\ MapGet(analysis.details.exchangeFlowsByAddress, "x1").total = 70
    /\ MapGet(analysis.details.transfersByAddress, "x1").total = 70
    /\ MapHas(analysis.details.exchangeFlowsByAddress, "a1")
    /\ MapGet(analysis.details.exchangeFlowsByAddress, "a1").total
         < MapGet(analysis.details.transfersByAddress, "a1").total

\* C14: detectExchangeTransfers leaves the transfer list as it was given;
\* the deposit flows are, in order and with their from, to, amount and
\* timestamp, exactly the transfers whose recipient is a registry address,
\* and the withdrawal flows exactly the transfers whose sender is one; a
\* transfer touching no registry address yields no flow.
C14_DetectionFrame ==
    pStage = "detected" =>
        /\ transfers = givenTransfers
        /\ \A i \in DOMAIN exchangeFlows : exchangeFlows[i].type \in {"deposit", "withdrawal"}
        /\ FlowsOfType("deposit")
             = SelectSeq(transfers, LAMBDA t : isExchangeAddress(t.to))
        /\ FlowsOfType("withdrawal")
             = SelectSeq(transfers, LAMBDA t : isExchangeAddress(t.from))
        /\ \A i \in DOMAIN exchangeFlows :
             /\ exchangeFlows[i].type = "deposit" =>
                  exchangeFlows[i].exchangeAddress = exchangeFlows[i].to
             /\ exchangeFlows[i].type = "withdrawal" =>
                  exchangeFlows[i].exchangeAddress = exchangeFlows[i].from

\* C14 witness: three transfers classified: one between two registry
\* addresses (a deposit and a withdrawal), one deposit of a cohort address
\* and one transfer that touches no registry address (no flow).
C14_Witness ==
    /\ pStage = "detected"
    /\ Len(transfers) = 3
    /\ \E i \in DOMAIN transfers :
         isExchangeAddress(transfers[i].from) /\ isExchangeAddress(transfers[i].to)
    /\ \E i \in DOMAIN transfers :
         ~isExchangeAddress(transfers[i].from) /\ ~isExchangeAddress(transfers[i].to)
    /\ \E i \in DOMAIN transfers :
         ~isExchangeAddress(transfers[i].from) /\ isExchangeAddress(transfers[i].to)
    /\ Len(exchangeFlows) = 3


----------------------------------------------------------------------------
\* identifyPatterns under inputs that reach its thresholds: many quick
\* deposits of one address and a few large deposits.

\* n copies of x.
Copies(x, n) == [i \in 1..n |-> x]

\* A deposit of 50 DOT by a1, timed `after` seconds after a1's reward at T0.
SmallDeposit(after) ==
    [from |-> "a1", to |-> "x1", amount |-> 50, timestamp |-> T0 + after,
     type |-> "deposit", exchange |-> Exchange]

\* Deposits above the large-flow threshold, all in the hour of T0 + 1800.
LargeDeposits ==
    [from : Addresses, to : {"x1"}, amount : {2 * largeFlowThreshold},
     timestamp : {T0 + 1800}, type : {"deposit"}, exchange : {Exchange}]

\* The reward lists: none, or one reward of a1 at T0.
PatternRewards ==
    {<<>>} \cup {<<[address |-> "a1", amount |-> amount, timestamp |-> T0]>> :
                    amount \in {0, 100, 1100}}

PatternsInit ==
    /\ rewards \in PatternRewards
    /\ transfers = <<>>
    /\ \E quick \in 0..MaxQuickFlows, slow \in 0..1 :
         \E large \in SeqUpTo(LargeDeposits, MaxLargeFlows) :
            exchangeFlows = Copies(SmallDeposit(1800), quick)
                            \o Copies(SmallDeposit(9000), slow) \o large
    /\ now = Now0
    /\ tzOffset \in TimeZones
    /\ analysis = NoAnalysis
    /\ previous = NoAnalysis
    /\ runs = 0
    /\ TransfersIdle
    /\ RewardsIdle
    /\ DiscoveryIdle
    /\ CycleIdle
    /\ LimiterIdle
    /\ DetectorIdle

SpecPatterns == PatternsInit /\ [][Analyze]_vars

\* The patterns of one type in the result.
PatternsOfType(type) ==
    SelectSeq(analysis.details.suspiciousPatterns, LAMBDA p : p.type = type)

\* The distinct addresses with a deposit flow above the large-flow threshold
\* in hour bucket `hour` (the bucket as the analyzer computes it).
LargeSellersIn(hour) ==
    {DepositFlows[i].from :
        i \in {j \in DOMAIN DepositFlows :
                  /\ DepositFlows[j].amount > largeFlowThreshold
                  /\ getHours(DepositFlows[j].timestamp, tzOffset) = hour}}

\* C15 (as claimed): a coordinated_selling pattern is emitted for an hour
\* bucket exactly when at least 3 distinct addresses each have a large deposit
\* in that bucket; one pattern per such hour, its participant count the
\* number of distinct addresses.
C15_CoordinatedNeedsThreeAddresses ==
    Analyzed =>
        \A hour \in 0..(HoursPerDay - 1) :
            LET ps == SelectSeq(PatternsOfType("coordinated_selling"),
                                LAMBDA p : p.hour = hour)
            IN IF Cardinality(LargeSellersIn(hour)) >= 3
               THEN Len(ps) = 1 /\ ps[1].sellers = Cardinality(LargeSellersIn(hour))
               ELSE Len(ps) = 0

\* C19: high_sell_pressure is emitted exactly when 100 * exchangeFlow /
\* totalRewards exceeds 50 (not at 50, and never when the rewards sum to 0),
\* rapid_selling exactly when summary.quickSellers exceeds 10 (not at 10),
\* each at most once and whatever else was emitted; with no exchange flows
\* no pattern is emitted.
C19_PatternsIndependent ==
    Analyzed =>
        /\ Len(PatternsOfType("high_sell_pressure"))
             = IF RewardTotal > 0 /\ 100 * DepositTotal > 50 * RewardTotal THEN 1 ELSE 0
        /\ Len(PatternsOfType("rapid_selling"))
             = IF analysis.summary.quickSellers > 10 THEN 1 ELSE 0
        /\ exchangeFlows = <<>> => analysis.details.suspiciousPatterns = <<>>

\* C19 witness: eleven quick deposits against a reward of twice their sum:
\* rapid_selling is emitted alone, sell pressure standing at exactly 50.
C19_Witness ==
    /\ Analyzed
    /\ analysis.summary.quickSellers = 11
    /\ 100 * DepositTotal = 50 * RewardTotal /\ RewardTotal > 0
    /\ Len(PatternsOfType("rapid_selling")) = 1
    /\ Len(analysis.details.suspiciousPatterns) = 1


----------------------------------------------------------------------------
\* ExchangeDetector.categorizeAddresses (exchangeDetector.js 158-217).

\* The first loop (170-177): addressMap.set(addr.address, {...addr,
\* exchangeTransfers: [], quickestTransfer: null, isExchange}).
RECURSIVE initAddressMap(_, _)
initAddressMap(addresses, addressMap) ==
    IF addresses = <<>> THEN addressMap
    ELSE LET addr == Head(addresses)
             info == [exchangeTransfers |-> <<>>,
                      quickestTransfer |-> null,
                      isExchange |-> isExchangeAddress(addr.address)] @@ addr
         IN initAddressMap(Tail(addresses), MapSet(addressMap, addr.address, info))

\* The second loop (180-187): each deposit is pushed to its sender's entry,
\* when the sender is one of the given addresses.
RECURSIVE mapTransfersToAddresses(_, _)
mapTransfersToAddresses(ts, addressMap) ==
    IF ts = <<>> THEN addressMap
    ELSE LET transfer == Head(ts)
             next == IF transfer.type = "deposit" /\ MapHas(addressMap, transfer.from)
                     THEN MapSet(addressMap, transfer.from,
                                 [MapGet(addressMap, transfer.from) EXCEPT
                                     !.exchangeTransfers = Append(@, transfer)])
                     ELSE addressMap
         IN mapTransfersToAddresses(Tail(ts), next)

\* Math.min(...info.exchangeTransfers.map(t => t.timestamp))
quickestTime(info) ==
    CHOOSE t \in {info.exchangeTransfers[i].timestamp : i \in DOMAIN info.exchangeTransfers} :
        \A i \in DOMAIN info.exchangeTransfers : t <= info.exchangeTransfers[i].timestamp

\* The category one non-exchange entry is pushed to (196-213). Without a
\* lastRewardBlock the difference is NaN, every comparison is false and the
\* last branch is taken.
categoryOf(info) ==
    IF Len(info.exchangeTransfers) = 0 THEN "holders"
    ELSE IF "lastRewardBlock" \notin DOMAIN info THEN "holders"
    ELSE LET timeDiffOf == quickestTime(info) - info.lastRewardBlock
         IN IF timeDiffOf < 3600 THEN "quickSellers"
            ELSE IF timeDiffOf < 86400 THEN "regularSellers"
            ELSE IF timeDiffOf < 604800 THEN "delayedSellers"
            ELSE "holders"

\* The third loop (190-214) over the entries of addressMap, in order.
RECURSIVE categorizeEntries(_, _)
categorizeEntries(entries, cats) ==
    IF entries = <<>> THEN cats
    ELSE LET info == Head(entries).value
             list == IF info.isExchange THEN "exchangeAccounts" ELSE categoryOf(info)
         IN categorizeEntries(Tail(entries), [cats EXCEPT ![list] = Append(@, info)])

categorizeAddresses(addresses, ts) ==
    categorizeEntries(
        mapTransfersToAddresses(ts, initAddressMap(addresses, <<>>)),
        [quickSellers |-> <<>>, regularSellers |-> <<>>, delayedSellers |-> <<>>,
         holders |-> <<>>, exchangeAccounts |-> <<>>])

\* The addresses given: receivers with a lastRewardBlock (0 as
\* fetchTopRewardReceivers sets it, or a later time), a registry address, and
\* an address object without the field.
CategorizedAddresses ==
    [address : {"a1", "a2", "x1"}, lastRewardBlock : {0, T0}]
    \cup {[address |-> "a1"]}

\* The flows given: deposits half an hour, two and a half hours and seven
\* days after T0, and a withdrawal.
CategorizedFlows ==
    [from : {"a1", "a2"}, to : {"x1"}, amount : {50},
     timestamp : {T0 + 1800, T0 + 9000, T0 + 604800},
     type : {"deposit"}, exchange : {Exchange}]
    \cup
    {[from |-> "x1", to |-> "a1", amount |-> 50, timestamp |-> T0 + 1800,
      type |-> "withdrawal", exchange |-> Exchange]}

CategorizeInit ==
    /\ AnalyzerIdle /\ now = Now0 /\ TransfersIdle /\ RewardsIdle /\ DiscoveryIdle
    /\ CycleIdle
    /\ LimiterIdle
    /\ pStage = "given"
    /\ givenTransfers = <<>>
    /\ \E na \in 0..MaxEvents :
         /\ catAddresses \in [1..na -> CategorizedAddresses]
         /\ catTransfers \in SeqUpTo(CategorizedFlows, MaxEvents - na)
    /\ categories = <<>>

\* categorizeAddresses(addresses, transfers) is called.
Categorize ==
    /\ pStage = "given"
    /\ categories' = categorizeAddresses(catAddresses, catTransfers)
    /\ pStage' = "categorized"
    /\ UNCHANGED <<givenTransfers, catAddresses, catTransfers>>
    /\ UNCHANGED <<analyzerVars, transferVars, rewardVars, discoveryVars, limiterVars, cycleVars>>

SpecCategorize == CategorizeInit /\ [][Categorize]_vars

\* How many entries of a category list belong to an address.
PlacedIn(list, address) ==
    Cardinality({i \in DOMAIN categories[list] : categories[list][i].address = address})

\* C16 (as claimed): every non-exchange address given is placed in exactly
\* one of quickSellers, regularSellers, delayedSellers and holders, and is
\* placed in holders only if no deposit flow given was sent by it.
C16_CategoriesPartitionAndHoldersHoldNoDeposit ==
    pStage = "categorized" =>
        \A i \in DOMAIN catAddresses :
            LET address == catAddresses[i].address IN
            ~isExchangeAddress(address) =>
                /\ PlacedIn("quickSellers", address) + PlacedIn("regularSellers", address)
                     + PlacedIn("delayedSellers", address) + PlacedIn("holders", address) = 1
                /\ PlacedIn("holders", address) > 0 =>
                     \A j \in DOMAIN catTransfers :
                         ~(catTransfers[j].type = "deposit" /\ catTransfers[j].from = address)


----------------------------------------------------------------------------
\* Further properties of the analysis (SpecAnalyzer).

\* C17 (as claimed): summary.quickSellers equals the number of addresses
\* whose per-address quickSell flag is true, however many qualifying deposit
\* flows an address has.
C17_QuickSellersCountsFlaggedAddresses ==
    Analyzed =>
        analysis.summary.quickSellers
            = Cardinality({i \in DOMAIN analysis.details.exchangeFlowsByAddress :
                              analysis.details.exchangeFlowsByAddress[i].value.quickSell})

\* floor(timestamp / 3600) mod 24: the hour of day in UTC.
UTCHour(timestamp) == (timestamp \div 3600) % HoursPerDay

\* C20 (as claimed): the hour buckets of hourlyRewards and of
\* hourlyExchangeFlows are the UTC hours of the rewards and of the deposit
\* flows, whatever the time zone of the process.
C20_HourBucketsAreUTC ==
    Analyzed =>
        /\ DOMAIN analysis.trends.hourlyRewards
             = {UTCHour(rewards[i].timestamp) : i \in DOMAIN rewards}
        /\ DOMAIN analysis.trends.hourlyExchangeFlows
             = {UTCHour(DepositFlows[i].timestamp) : i \in DOMAIN DepositFlows}

----------------------------------------------------------------------------
\* The quick-sell timing of analyzeExchangeFlows under rewards that come
\* before and after the deposits, in any list order.

TimedRewards == [address : Addresses, amount : {100}, timestamp : {T0, T0 + 3600, T0 + 7200}]

TimedDeposits ==
    [from : Addresses, to : {"x1"}, amount : {50}, timestamp : {T0 + 1800, T0 + 9000},
     type : {"deposit"}, exchange : {Exchange}]

RewardTimingInit ==
    /\ \E nr \in 0..MaxEvents :
         /\ rewards \in [1..nr -> TimedRewards]
         /\ exchangeFlows \in SeqUpTo(TimedDeposits, MaxEvents - nr)
    /\ transfers = <<>>
    /\ now = Now0
    /\ tzOffset \in TimeZones
    /\ analysis = NoAnalysis
    /\ previous = NoAnalysis
    /\ runs = 0
    /\ TransfersIdle
    /\ RewardsIdle
    /\ DiscoveryIdle
    /\ CycleIdle
    /\ LimiterIdle
    /\ DetectorIdle

SpecRewardTiming == RewardTimingInit /\ [][Analyze]_vars

\* The timestamps of the rewards of the flow's sender that lie strictly
\* before the flow.
PriorRewardTimes(flow) ==
    {rewards[i].timestamp :
        i \in {j \in DOMAIN rewards : /\ rewards[j].address = flow.from
                                      /\ rewards[j].timestamp < flow.timestamp}}

\* The time from the most recent prior reward to the flow.
SincePriorReward(flow) ==
    flow.timestamp - (CHOOSE t \in PriorRewardTimes(flow) :
                          \A u \in PriorRewardTimes(flow) : u <= t)

\* The deposit flows that have a prior reward.
TimedFlows == SelectSeq(DepositFlows, LAMBDA f : PriorRewardTimes(f) # {})

\* C18 (as claimed): each deposit flow is timed against its sender's most
\* recent reward strictly before it, whatever the order of the reward list;
\* an address is marked a quick seller exactly when one of its flows follows
\* such a reward within the threshold, and the average time to exchange is
\* taken over the flows that have a prior reward only (0 when there is none),
\* so no time difference <= 0 is recorded.
C18_TimedAgainstMostRecentPriorReward ==
    Analyzed =>
        /\ \A i \in DOMAIN analysis.details.exchangeFlowsByAddress :
             LET e == analysis.details.exchangeFlowsByAddress[i] IN
             e.value.quickSell
               <=> \E j \in DOMAIN e.value.flows :
                      /\ PriorRewardTimes(e.value.flows[j]) # {}
                      /\ SincePriorReward(e.value.flows[j]) < rapidSellThreshold
        /\ IF TimedFlows = <<>>
           THEN FracIsZero(analysis.summary.averageTimeToExchange)
           ELSE FracEq(analysis.summary.averageTimeToExchange,
                       Frac(SumSeq([k \in DOMAIN TimedFlows |->
                                       SincePriorReward(TimedFlows[k])]),
                            Len(TimedFlows) * 3600))


----------------------------------------------------------------------------
\* Properties of the trend series and of the rankings (SpecAnalyzer).

\* The sum of the buckets 0..hour of an hourly object.
RECURSIVE BucketSum(_, _)
BucketSum(obj, hour) ==
    IF hour < 0 THEN 0 ELSE ObjGet(obj, hour) + BucketSum(obj, hour - 1)

\* C21: generateTrends produces exactly 24 entries, hour 0..23 in order;
\* entry h holds the sum of hourlyRewards over buckets 0..h, the sum of
\* hourlyExchangeFlows over buckets 0..h and the pressure 100 * exchange /
\* rewards of these sums (0 when the rewards sum is 0); both sums are
\* non-decreasing in h.
C21_CumulativeSeries ==
    Analyzed =>
        LET series == analysis.trends.cumulativeSellPressure IN
        /\ Len(series) = HoursPerDay
        /\ \A h \in 0..(HoursPerDay - 1) :
             LET entry == series[h + 1] IN
             /\ entry.hour = h
             /\ entry.rewards = BucketSum(analysis.trends.hourlyRewards, h)
             /\ entry.exchange = BucketSum(analysis.trends.hourlyExchangeFlows, h)
             /\ IF entry.rewards = 0 THEN entry.pressure = Frac(0, 1)
                ELSE /\ entry.pressure.den > 0
                     /\ FracEq(entry.pressure, Frac(100 * entry.exchange, entry.rewards))
             /\ h > 0 => /\ series[h].rewards <= entry.rewards
                         /\ series[h].exchange <= entry.exchange

\* C21 witness: a deposit in bucket 1 and a reward in bucket 23: at hour 1
\* the series holds exchange without rewards and a pressure of 0, at hour 23
\* the reward has been added.
C21_Witness ==
    /\ Analyzed
    /\ analysis.trends.cumulativeSellPressure[2].exchange > 0
    /\ analysis.trends.cumulativeSellPressure[2].rewards = 0
    /\ analysis.trends.cumulativeSellPressure[2].pressure = Frac(0, 1)
    /\ analysis.trends.cumulativeSellPressure[HoursPerDay].rewards > 0
    /\ analysis.trends.cumulativeSellPressure[HoursPerDay].exchange
         > analysis.trends.cumulativeSellPressure[2].exchange


----------------------------------------------------------------------------
\* The rankings of calculateSellPressure under more addresses than the ten
\* a ranking keeps.

\* The i-th of n amounts laid out in the given order.
RankedAmount(order, i, n) ==
    IF order = "ascending" THEN 10 * i
    ELSE IF order = "descending" THEN 10 * (n - i + 1)
    ELSE 10

AmountOrders == {"ascending", "descending", "equal"}

\* The i-th selling address and the i-th holding address.
SellerAddress(i) == "s" \o ToString(i)

HolderAddress(i) == "h" \o ToString(i)

RankingsInit ==
    /\ \E ns \in 0..MaxRanked, nh \in 0..MaxRanked, order \in AmountOrders,
          sellerRewarded \in BOOLEAN :
         /\ exchangeFlows =
              [i \in 1..ns |->
                  [from |-> SellerAddress(i), to |-> "x1",
                   amount |-> RankedAmount(order, i, ns), timestamp |-> T0 + 9000,
                   type |-> "deposit", exchange |-> Exchange]]
         /\ rewards =
              [i \in 1..nh |->
                  [address |-> HolderAddress(i),
                   amount |-> RankedAmount(order, i, nh), timestamp |-> T0]]
              \o (IF sellerRewarded
                  THEN <<[address |-> SellerAddress(1), amount |-> 500, timestamp |-> T0]>>
                  ELSE <<>>)
    /\ transfers = <<>>
    /\ now = Now0
    /\ tzOffset \in TimeZones
    /\ analysis = NoAnalysis
    /\ previous = NoAnalysis
    /\ runs = 0
    /\ TransfersIdle
    /\ RewardsIdle
    /\ DiscoveryIdle
    /\ CycleIdle
    /\ LimiterIdle
    /\ DetectorIdle

SpecRankings == RankingsInit /\ [][Analyze]_vars

\* The addresses listed in a ranking.
Listed(ranking) == {ranking[i].address : i \in DOMAIN ranking}

\* C22: topSellers holds at most 10 entries, each an address with its
\* exchange total, sorted by that total descending, and no address left out
\* has a larger total than one listed; topHolders holds at most 10 entries,
\* each a reward address without deposit flows with its reward total, sorted
\* descending; no address is in both; without deposit flows topSellers is
\* empty.
C22_TopTenRankings ==
    Analyzed =>
        LET sellers == analysis.details.topSellers
            holders == analysis.details.topHolders
            flowsMap == analysis.details.exchangeFlowsByAddress
            rewardsMap == analysis.details.rewardsByAddress
        IN
        /\ Len(sellers) <= 10 /\ Len(holders) <= 10
        /\ Len(sellers) = IF Cardinality(DepositAddresses) < 10
                          THEN Cardinality(DepositAddresses) ELSE 10
        /\ Cardinality(Listed(sellers)) = Len(sellers)
        /\ Cardinality(Listed(holders)) = Len(holders)
        /\ \A i \in DOMAIN sellers :
             /\ MapHas(flowsMap, sellers[i].address)
             /\ sellers[i].amount = MapGet(flowsMap, sellers[i].address).total
             /\ \A j \in DOMAIN sellers : i < j => sellers[i].amount >= sellers[j].amount
             /\ \A k \in DOMAIN flowsMap :
                  flowsMap[k].key \notin Listed(sellers) =>
                      flowsMap[k].value.total <= sellers[i].amount
        /\ \A i \in DOMAIN holders :
             /\ holders[i].address \in RewardAddresses \ DepositAddresses
             /\ holders[i].rewards = MapGet(rewardsMap, holders[i].address).total
             /\ \A j \in DOMAIN holders : i < j => holders[i].rewards >= holders[j].rewards
        /\ Listed(sellers) \cap Listed(holders) = {}
        /\ DepositFlows = <<>> => sellers = <<>>

\* C22 witness: eleven sellers given in ascending order of amount and eleven
\* holders: both rankings hold ten entries, the largest first, and the
\* smallest seller, first in map order, is left out.
C22_Witness ==
    /\ Analyzed
    /\ Cardinality(DepositAddresses) = 11
    /\ Cardinality(RewardAddresses \ DepositAddresses) = 11
    /\ Len(analysis.details.topSellers) = 10
    /\ Len(analysis.details.topHolders) = 10
    /\ analysis.details.topSellers[1].address = SellerAddress(11)
    /\ SellerAddress(1) \notin Listed(analysis.details.topSellers)


----------------------------------------------------------------------------
\* One run of the tracker: InflationTracker.runTrackingCycle and, later,
\* InflationTracker.generateReport (src/src/tracker.js); and the
\* trackNominators script (src/track-nominators.js), which makes the same
\* steps over a window of seven days and reports on the analysis in memory.

\* fetchRecentRewards(sampleNominators, 168), trackTransfers(sampleNominators, 168)
NominatorHours == 168

\* What JSON.stringify writes for a Map and JSON.parse reads back: a plain
\* object without properties, which is not iterable. Standing where a Map's
\* entry list stands, it is written as a list whose one element is no entry.
PlainObject == <<[plainObject |-> TRUE]>>

\* The value denoted by the text JSON.stringify(analysis, null, 2): numbers,
\* arrays and plain objects are written as they are, the three Maps of
\* details as {}.
jsonStringify(a) ==
    [a EXCEPT !.details.rewardsByAddress = PlainObject,
              !.details.transfersByAddress = PlainObject,
              !.details.exchangeFlowsByAddress = PlainObject]

\* x.toFixed(1) of the quotient num / den, as a number of tenths; NaN for 0 / 0.
toFixed1(num, den) ==
    IF den = 0 THEN [nan |-> TRUE, tenths |-> 0]
    ELSE [nan |-> FALSE, tenths |-> (20 * num + den) \div (2 * den)]

\* A TypeError thrown by the reporter.
Thrown == [threw |-> "TypeError"]

\* Every flow of every entry of exchangeFlowsByAddress, in iteration order.
RECURSIVE flowsOfEntries(_)
flowsOfEntries(m) ==
    IF m = <<>> THEN <<>> ELSE Head(m).value.flows \o flowsOfEntries(Tail(m))

\* Reporter.generateExchangeBreakdown: for...of over exchangeFlowsByAddress
\* (a TypeError when it is not iterable), deposits and count summed by
\* flow.exchange.name, then the percentage of summary.exchangeFlow.
generateExchangeBreakdown(a) ==
    IF a.details.exchangeFlowsByAddress = PlainObject THEN Thrown
    ELSE
    LET flows == flowsOfEntries(a.details.exchangeFlowsByAddress)
        names == {flows[i].exchange.name : i \in DOMAIN flows}
        of(name) == SelectSeq(flows, LAMBDA f : f.exchange.name = name)
        deposits(name) == SumSeq([i \in DOMAIN of(name) |-> of(name)[i].amount])
    IN [name \in names |->
           [deposits |-> deposits(name),
            count |-> Len(of(name)),
            percentage |-> toFixed1(deposits(name) * 100, a.summary.exchangeFlow)]]

\* Reporter.generateReport(analysis): null without an analysis; otherwise the
\* report object (its period, key metrics and exchange breakdown are kept),
\* unless building it throws.
generateReport(a) ==
    IF a = null THEN null
    ELSE IF generateExchangeBreakdown(a) = Thrown THEN Thrown
    ELSE [period |-> a.period,
          keyMetrics |-> a.summary,
          exchangeBreakdown |-> generateExchangeBreakdown(a)]

\* The steps of runTrackingCycle, in the order of its awaits.
CycleSteps ==
    <<"loadTopReceivers", "fetchRecentRewards", "trackTransfers",
      "detectExchangeTransfers", "analyzeFlows", "saveAnalysis">>

\* The steps whose error reaches the caller: loadTopReceivers and
\* saveAnalysis catch their own.
ThrowingSteps ==
    {"fetchRecentRewards", "trackTransfers", "detectExchangeTransfers", "analyzeFlows"}

\* The step awaited after `step`.
nextStep(step) ==
    LET i == CHOOSE k \in DOMAIN CycleSteps : CycleSteps[k] = step
    IN CycleSteps[i + 1]

\* Mutant: saveAnalysis without its try/catch: a failed write throws, before
\* or after latest.json is written.
saveAnalysisOutcomes_Uncaught ==
    {[latestWritten |-> TRUE, threw |-> FALSE],
     [latestWritten |-> FALSE, threw |-> TRUE],
     [latestWritten |-> TRUE, threw |-> TRUE]}

\* saveAnalysis: latest.json is written and the call returns true, or a write
\* fails, the error is caught and the call returns false, with latest.json
\* written (the later write failed) or not.
saveAnalysisOutcomes ==
    {[latestWritten |-> TRUE, threw |-> FALSE],
     [latestWritten |-> FALSE, threw |-> FALSE]}

\* The reward lists fetchRecentRewards may return for a window of `hours`
\* hours that ends at Now0.
CycleRewardLists(hours) ==
    LET reward(address, timestamp) ==
            [address |-> address, amount |-> 100, timestamp |-> timestamp]
    IN {<<>>, <<reward("a1", T0)>>, <<reward("a1", T0), reward("a2", T0)>>}
       \cup (IF hours * 3600 > 100 * 3600
             THEN {<<reward("a1", Now0 - 100 * 3600)>>} ELSE {})

\* The transfer lists trackTransfers may return.
CycleTransferLists ==
    LET transfer(from, to) ==
            [from |-> from, to |-> to, amount |-> 70, timestamp |-> T0 + 1800]
    IN {<<>>, <<transfer("a1", "x1")>>, <<transfer("a1", "a2")>>,
        <<transfer("x1", "a2")>>,
        <<transfer("a1", "x1"), transfer("a2", "x2"), transfer("a2", "x1")>>}

\* The latest.json an earlier cycle has left.
EarlierLatest == jsonStringify(analyzeFlows(<<>>, <<>>, <<>>, Now0 - 3600, 0))

CycleInit ==
    /\ rewards = <<>>
    /\ transfers = <<>>
    /\ exchangeFlows = <<>>
    /\ now = Now0
    /\ tzOffset \in TimeZones
    /\ analysis = NoAnalysis
    /\ previous = NoAnalysis
    /\ runs = 0
    /\ cEntry = "none"
    /\ cStage = "idle"
    /\ cHours = 0
    /\ cLog = <<>>
    /\ cThrown = "none"
    /\ latestFile \in {null, EarlierLatest}
    /\ loadedAnalysis = null
    /\ report = null
    /\ TransfersIdle
    /\ RewardsIdle
    /\ DiscoveryIdle
    /\ LimiterIdle
    /\ DetectorIdle

\* cron, or start(): runTrackingCycle is called; the collectors are called
\* without `hours`, which defaults to 24.
StartRunTrackingCycle ==
    /\ cStage = "idle"
    /\ cEntry' = "runTrackingCycle"
    /\ cHours' = defaultHours
    /\ cStage' = CycleSteps[1]
    /\ UNCHANGED <<cLog, cThrown, latestFile, loadedAnalysis, report>>
    /\ UNCHANGED <<analyzerVars, transferVars, rewardVars, discoveryVars, limiterVars,
                   detectorVars>>

\* `node track-nominators.js`.
StartTrackNominators ==
    /\ cStage = "idle"
    /\ cEntry' = "trackNominators"
    /\ cHours' = NominatorHours
    /\ cStage' = CycleSteps[1]
    /\ UNCHANGED <<cLog, cThrown, latestFile, loadedAnalysis, report>>
    /\ UNCHANGED <<analyzerVars, transferVars, rewardVars, discoveryVars, limiterVars,
                   detectorVars>>

\* Step 1: storage.loadTopReceivers() returns the cohort (or [] after a
\* caught error).
CycleLoadTopReceivers ==
    /\ cStage = "loadTopReceivers"
    /\ cLog' = Append(cLog, cStage)
    /\ cStage' = nextStep(cStage)
    /\ UNCHANGED <<cEntry, cHours, cThrown, latestFile, loadedAnalysis, report>>
    /\ UNCHANGED <<analyzerVars, transferVars, rewardVars, discoveryVars, limiterVars,
                   detectorVars>>

\* Step 2: fetchRecentRewards has returned the rewards of the whole cohort.
CycleFetchRecentRewards ==
    /\ cStage = "fetchRecentRewards"
    /\ rewards' \in CycleRewardLists(cHours)
    /\ cLog' = Append(cLog, cStage)
    /\ cStage' = nextStep(cStage)
    /\ UNCHANGED <<transfers, exchangeFlows, now, tzOffset, analysis, previous, runs>>
    /\ UNCHANGED <<cEntry, cHours, cThrown, latestFile, loadedAnalysis, report>>
    /\ UNCHANGED <<transferVars, rewardVars, discoveryVars, limiterVars, detectorVars>>

\* Step 3: trackTransfers has returned the transfers of the whole cohort.
CycleTrackTransfers ==
    /\ cStage = "trackTransfers"
    /\ transfers' \in CycleTransferLists
    /\ cLog' = Append(cLog, cStage)
    /\ cStage' = nextStep(cStage)
    /\ UNCHANGED <<rewards, exchangeFlows, now, tzOffset, analysis, previous, runs>>
    /\ UNCHANGED <<cEntry, cHours, cThrown, latestFile, loadedAnalysis, report>>
    /\ UNCHANGED <<transferVars, rewardVars, discoveryVars, limiterVars, detectorVars>>

\* Step 4: exchangeFlows = detectExchangeTransfers(transfers).
CycleDetectExchangeTransfers ==
    /\ cStage = "detectExchangeTransfers"
    /\ exchangeFlows' = detectExchangeTransfers(transfers)
    /\ cLog' = Append(cLog, cStage)
    /\ cStage' = nextStep(cStage)
    /\ UNCHANGED <<rewards, transfers, now, tzOffset, analysis, previous, runs>>
    /\ UNCHANGED <<cEntry, cHours, cThrown, latestFile, loadedAnalysis, report>>
    /\ UNCHANGED <<transferVars, rewardVars, discoveryVars, limiterVars, detectorVars>>

\* Step 5: analysis = analyzeFlows({rewards, transfers, exchangeFlows, ...}).
CycleAnalyzeFlows ==
    /\ cStage = "analyzeFlows"
    /\ analysis' = analyzeFlows(rewards, transfers, exchangeFlows, now, tzOffset)
    /\ previous' = analysis
    /\ runs' = runs + 1
    /\ cLog' = Append(cLog, cStage)
    /\ cStage' = nextStep(cStage)
    /\ UNCHANGED <<rewards, transfers, exchangeFlows, now, tzOffset>>
    /\ UNCHANGED <<cEntry, cHours, cThrown, latestFile, loadedAnalysis, report>>
    /\ UNCHANGED <<transferVars, rewardVars, discoveryVars, limiterVars, detectorVars>>

\* Step 6: storage.saveAnalysis(analysis); then runTrackingCycle logs the
\* summary and returns, and trackNominators goes on to its report.
CycleSaveAnalysis ==
    /\ cStage = "saveAnalysis"
    /\ \E outcome \in saveAnalysisOutcomes :
         /\ latestFile' = IF outcome.latestWritten THEN jsonStringify(analysis)
                          ELSE latestFile
         /\ IF outcome.threw
            THEN cThrown' = cStage /\ cStage' = "caught" /\ cLog' = cLog
            ELSE /\ cThrown' = cThrown
                 /\ cLog' = Append(cLog, cStage)
                 /\ cStage' = IF cEntry = "trackNominators" THEN "generateReport"
                              ELSE "ended"
    /\ UNCHANGED <<cEntry, cHours, loadedAnalysis, report>>
    /\ UNCHANGED <<analyzerVars, transferVars, rewardVars, discoveryVars, limiterVars,
                   detectorVars>>

\* The step about to run throws: the catch block that encloses every step
\* logs the error and the run returns.
CycleThrow ==
    /\ cStage \in ThrowingSteps
    /\ cThrown' = cStage
    /\ cStage' = "caught"
    /\ UNCHANGED <<cEntry, cHours, cLog, latestFile, loadedAnalysis, report>>
    /\ UNCHANGED <<analyzerVars, transferVars, rewardVars, discoveryVars, limiterVars,
                   detectorVars>>

\* trackNominators: reporter.generateReport(analysis) on the analysis in
\* memory.
NominatorsGenerateReport ==
    /\ cStage = "generateReport"
    /\ report' = generateReport(analysis)
    /\ cStage' = "ended"
    /\ UNCHANGED <<cEntry, cHours, cLog, cThrown, latestFile, loadedAnalysis>>
    /\ UNCHANGED <<analyzerVars, transferVars, rewardVars, discoveryVars, limiterVars,
                   detectorVars>>

\* InflationTracker.generateReport, later: storage.loadLatestAnalysis()
\* parses latest.json, or returns null when there is none.
LoadLatestAnalysis ==
    /\ cEntry = "runTrackingCycle"
    /\ cStage \in {"ended", "caught"}
    /\ loadedAnalysis' = latestFile
    /\ cStage' = "loaded"
    /\ UNCHANGED <<cEntry, cHours, cLog, cThrown, latestFile, report>>
    /\ UNCHANGED <<analyzerVars, transferVars, rewardVars, discoveryVars, limiterVars,
                   detectorVars>>

\* InflationTracker.generateReport: reporter.generateReport(analysis) on the
\* loaded analysis; what it throws is caught and logged.
ReportOnLoaded ==
    /\ cStage = "loaded"
    /\ report' = generateReport(loadedAnalysis)
    /\ cStage' = "reported"
    /\ UNCHANGED <<cEntry, cHours, cLog, cThrown, latestFile, loadedAnalysis>>
    /\ UNCHANGED <<analyzerVars, transferVars, rewardVars, discoveryVars, limiterVars,
                   detectorVars>>

CycleNext ==
    \/ StartRunTrackingCycle
    \/ StartTrackNominators
    \/ CycleLoadTopReceivers
    \/ CycleFetchRecentRewards
    \/ CycleTrackTransfers
    \/ CycleDetectExchangeTransfers
    \/ CycleAnalyzeFlows
    \/ CycleSaveAnalysis
    \/ CycleThrow
    \/ NominatorsGenerateReport
    \/ LoadLatestAnalysis
    \/ ReportOnLoaded

SpecCycle == CycleInit /\ [][CycleNext]_vars

----------------------------------------------------------------------------
\* Properties of the run.

\* The steps that have returned.
Returned == {cLog[i] : i \in DOMAIN cLog}

\* The steps that have returned before the i-th.
ReturnedBefore(i) == {cLog[j] : j \in 1..(i - 1)}

\* The step has been invoked: it is running, it has returned or it threw.
Invoked(step) == cStage = step \/ step \in Returned \/ cThrown = step

\* C25: in runTrackingCycle analyzeFlows is invoked only after
\* fetchRecentRewards, trackTransfers and detectExchangeTransfers have
\* returned, on the lists they returned, and saveAnalysis only after
\* analyzeFlows has returned; when a step throws, the run ends in its catch
\* block, saveAnalysis is never invoked and latest.json holds what it held
\* before the cycle.
C25_CycleOrderAndNoSaveAfterThrow ==
    cEntry = "runTrackingCycle" =>
        /\ Invoked("analyzeFlows") =>
             /\ {"fetchRecentRewards", "trackTransfers", "detectExchangeTransfers"}
                  \subseteq Returned
             /\ exchangeFlows = detectExchangeTransfers(transfers)
        /\ Invoked("saveAnalysis") =>
             /\ "analyzeFlows" \in Returned
             /\ analysis = analyzeFlows(rewards, transfers, exchangeFlows, now, tzOffset)
        /\ \A i \in DOMAIN cLog : cLog[i] = CycleSteps[i]
        /\ cThrown # "none" =>
             /\ cStage \in {"caught", "loaded", "reported"}
             /\ ~Invoked("saveAnalysis")
             /\ latestFile \in {null, EarlierLatest}

\* C25 witness: analyzeFlows threw after the collectors and the detector had
\* returned: the run ended in the catch block and latest.json is the earlier
\* cycle's.
C25_Witness ==
    /\ cEntry = "runTrackingCycle"
    /\ cThrown = "analyzeFlows"
    /\ cStage = "caught"
    /\ Len(cLog) = 4
    /\ rewards # <<>>
    /\ latestFile = EarlierLatest


\* C27 (as claimed): the period the analysis carries is the window its events
\* were collected over: for a run that collects with a window of cHours
\* hours, period.end - period.start = cHours * 3600, and every reward
\* analysed lies inside the period.
C27_PeriodIsCollectionWindow ==
    (cEntry # "none" /\ "analyzeFlows" \in Returned) =>
        /\ analysis.period.end - analysis.period.start = cHours * 3600
        /\ \A i \in DOMAIN rewards :
             /\ analysis.period.start <= rewards[i].timestamp
             /\ rewards[i].timestamp <= analysis.period.end

\* The analysis of this run has been saved to latest.json, loaded from it and
\* reported on.
SavedLoadedReported ==
    /\ cStage = "reported"
    /\ "saveAnalysis" \in Returned
    /\ loadedAnalysis # null
    /\ loadedAnalysis.timestamp = analysis.timestamp

\* C28 (as claimed): an analysis saved with saveAnalysis and read back with
\* loadLatestAnalysis has the same summary and the same per-address
\* aggregates, and Reporter.generateReport on the loaded analysis completes
\* with the exchange breakdown it produces on the original.
C28_SaveLoadRoundTrip ==
    SavedLoadedReported =>
        /\ loadedAnalysis.summary = analysis.summary
        /\ loadedAnalysis.details.rewardsByAddress = analysis.details.rewardsByAddress
        /\ loadedAnalysis.details.transfersByAddress = analysis.details.transfersByAddress
        /\ loadedAnalysis.details.exchangeFlowsByAddress
             = analysis.details.exchangeFlowsByAddress
        /\ report # Thrown
        /\ report = generateReport(analysis)


----------------------------------------------------------------------------
\* analyzeFlows applied to the same events in another order: the lists as the
\* collectors return them for a cohort in one order, and in another.

\* The orders of a list that keep the events of each address in their
\* relative order; `of` gives the address of an event.
Reorderings(list, of(_)) ==
    {[i \in DOMAIN list |-> list[p[i]]] :
        p \in {q \in Permutations(DOMAIN list) :
                  \A i, j \in DOMAIN list :
                      (i < j /\ of(list[q[i]]) = of(list[q[j]])) => q[i] < q[j]}}

ReorderInit ==
    /\ \E nr \in 0..MaxEvents :
         \E nf \in 0..(MaxEvents - nr) :
            /\ rewards \in [1..nr -> TimedRewards]
            /\ exchangeFlows \in [1..nf -> TimedDeposits]
            /\ transfers \in SeqUpTo(TransferEvents, MaxEvents - nr - nf)
    /\ now = Now0
    /\ tzOffset \in TimeZones
    /\ analysis = NoAnalysis
    /\ previous = NoAnalysis
    /\ runs = 0
    /\ TransfersIdle
    /\ RewardsIdle
    /\ DiscoveryIdle
    /\ CycleIdle
    /\ LimiterIdle
    /\ DetectorIdle

\* A second analyzer is given the same events with the addresses interleaved
\* differently, at the same clock.
AnalyzeReordered ==
    /\ runs = 1
    /\ rewards' \in Reorderings(rewards, LAMBDA r : r.address)
    /\ transfers' \in Reorderings(transfers, LAMBDA t : t.from)
    /\ exchangeFlows' \in Reorderings(exchangeFlows, LAMBDA f : f.from)
    /\ analysis' = analyzeFlows(rewards', transfers', exchangeFlows', now, tzOffset)
    /\ previous' = analysis
    /\ runs' = 2
    /\ UNCHANGED <<now, tzOffset>>
    /\ UNCHANGED <<transferVars, rewardVars, discoveryVars, limiterVars, detectorVars,
                   cycleVars>>

ReorderNext == Analyze \/ AnalyzeReordered

SpecReorder == ReorderInit /\ [][ReorderNext]_vars

----------------------------------------------------------------------------
\* Withdrawal flows and the conservation of the totals (SpecAnalyzer).

\* The addresses that sent a withdrawal flow.
WithdrawalAddresses ==
    {exchangeFlows[i].from :
        i \in {j \in DOMAIN exchangeFlows : exchangeFlows[j].type = "withdrawal"}}

\* C29: flows of type "withdrawal" leave the analysis as it is: the summary,
\* the details and the trends are those of analyzeFlows on the same rewards
\* and transfers and the deposit flows alone, so an address with rewards and
\* only withdrawals is counted as a holder.
C29_WithdrawalsChangeNothing ==
    Analyzed =>
        LET depositsOnly == analyzeFlows(rewards, transfers, DepositFlows, now, tzOffset)
        IN /\ analysis.summary = depositsOnly.summary
           /\ analysis.details = depositsOnly.details
           /\ analysis.trends = depositsOnly.trends
           /\ analysis.summary.holders
                >= Cardinality((RewardAddresses \cap WithdrawalAddresses) \ DepositAddresses)

\* C29 witness: a rewarded address whose only flow is a withdrawal is listed
\* among the holders, next to a deposit of another address.
C29_Witness ==
    /\ Analyzed
    /\ DepositFlows # <<>>
    /\ \E address \in (RewardAddresses \cap WithdrawalAddresses) \ DepositAddresses :
         address \in Listed(analysis.details.topHolders)
    /\ analysis.summary.holders = 1

\* The sum of the totals of the entries of a per-address Map.
RECURSIVE SumTotals(_)
SumTotals(m) == IF m = <<>> THEN 0 ELSE Head(m).value.total + SumTotals(Tail(m))

====
